---- MODULE Spec2Model ----
(***************************************************************************)
(* A model of the pkg-config core (src/pkg.c, src/parse.c): the package    *)
(* registry and resolver, the rpm-style version comparator and the flag    *)
(* merger.  Strings are sequences of one-character strings so that the     *)
(* suffix tests, the path arithmetic and the version segmentation are      *)
(* computed the way the C code computes them.                              *)
(***************************************************************************)
EXTENDS Integers, Sequences, FiniteSets, TLC

VARIABLES
    \* ---- version comparator (pkg.c:909-1045)
    va, vb,             \* the two version strings handed to compare_versions
    vpc,                \* "start" | "compared" | "tested"
    vcmp,               \* result of rpmvercmp(va, vb) and of rpmvercmp(vb, va)
    vtest               \* version_test(op, va, vb) for every op

verVars == <<va, vb, vpc, vcmp, vtest>>

VARIABLES
    \* ---- loaded packages and the merger (pkg.c:276-408, 542-665)
    heap,               \* the Package objects allocated so far; a Package * is an index
    mcall,              \* the last accessor called and the packages it was given
    mdups,              \* dups_list: the walk's output before duplicates are stripped
    mlist,              \* list: what the strip function returned
    mout                \* the string the accessor returned

mergeVars == <<mcall, mdups, mlist, mout>>

VARIABLES
    \* ---- the registry (pkg.c:26-274) and the options parse.c reads
    search_dirs,        \* GSList of directories, in list order
    initted,            \* package_init's static flag
    locations,          \* key -> path of the .pc file
    packages,           \* key -> Package *
    globals,            \* global variable overrides
    freed,              \* the globals whose value string has been passed to g_free
    disable_uninstalled,
    define_prefix,      \* parse.c:38
    parse_strict,
    fatal,              \* "" while the process runs, else why exit (1) was called
    gcall,              \* the last get_package call: name, result, cache hit
    diag,               \* diagnostics and compat look-ups of the last call
    \* ---- history, kept for the claims only
    given,              \* the directories in the order add_search_dir got them
    stored,             \* every <<key, Package *>> ever inserted into packages
    firstRet            \* name -> the first Package * get_package returned for it

regVars == <<search_dirs, initted, locations, packages, globals, freed, disable_uninstalled,
             define_prefix,
             parse_strict, fatal, gcall, diag, given, stored, firstRet>>

VARIABLES
    \* ---- the descriptor parser (parse.c)
    stream,             \* the bytes of the FILE read_one_line reads
    rpos,               \* how many of them getc has consumed
    rlines,             \* the logical lines read_one_line has returned so far
    pin,                \* the argument of the parser function under study
    pout,               \* what it returned
    pstep               \* "off" | "start" | "done"

parseVars == <<stream, rpos, rlines, pin, pout, pstep>>

vars == <<verVars, heap, mergeVars, regVars, parseVars>>

----------------------------------------------------------------------------
(* Characters and C library predicates, ASCII only.                        *)

\* the backslash character, and the backquote (byte 96), which has no string
\* literal of its own
BSL == "\\"
BQ == "backquote"

Digits == {"0", "1", "2", "9"}
Alphas == {"a", "b", "c", "d", "e", "i", "l", "n", "p", "q", "s", "t", "u"}

isdigit(c) == c \in Digits
isalpha(c) == c \in Alphas
isalnum(c) == isdigit(c) \/ isalpha(c)

\* byte value of a character, for strcmp
Ord(c) ==
    CASE c = "-" -> 45 [] c = "." -> 46 [] c = "/" -> 47
      [] c = "0" -> 48 [] c = "1" -> 49 [] c = "2" -> 50 [] c = "9" -> 57
      [] c = "a" -> 97 [] c = "b" -> 98 [] c = "c" -> 99 [] c = "d" -> 100
      [] c = "e" -> 101 [] c = "i" -> 105 [] c = "l" -> 108 [] c = "n" -> 110
      [] c = "p" -> 112 [] c = "q" -> 113 [] c = "s" -> 115 [] c = "t" -> 116
      [] c = "u" -> 117

Drop(s, n) == SubSeq(s, n + 1, Len(s))
Take(s, n) == SubSeq(s, 1, n)

\* strcmp(a, b): difference of the first differing bytes, NUL being 0
RECURSIVE strcmp(_, _)
strcmp(a, b) ==
    IF a = <<>> /\ b = <<>> THEN 0
    ELSE IF a = <<>> THEN 0 - Ord(Head(b))
    ELSE IF b = <<>> THEN Ord(Head(a))
    ELSE IF Head(a) # Head(b) THEN Ord(Head(a)) - Ord(Head(b))
    ELSE strcmp(Tail(a), Tail(b))

Sign(n) == IF n < 0 THEN -1 ELSE IF n > 0 THEN 1 ELSE 0

----------------------------------------------------------------------------
(* rpmvercmp, pkg.c:909-996.                                               *)

\* while (*p && !isalnum(*p)) p++;
RECURSIVE SkipNonAlnum(_)
SkipNonAlnum(s) ==
    IF s # <<>> /\ ~isalnum(Head(s)) THEN SkipNonAlnum(Tail(s)) ELSE s

\* length of the maximal leading run of digits / of letters
RECURSIVE DigitRun(_)
DigitRun(s) == IF s # <<>> /\ isdigit(Head(s)) THEN 1 + DigitRun(Tail(s)) ELSE 0

RECURSIVE AlphaRun(_)
AlphaRun(s) == IF s # <<>> /\ isalpha(Head(s)) THEN 1 + AlphaRun(Tail(s)) ELSE 0

\* while (*one == '0') one++;
RECURSIVE StripZeros(_)
StripZeros(s) == IF s # <<>> /\ Head(s) = "0" THEN StripZeros(Tail(s)) ELSE s

\* mutant: the left string wins whenever anything is left over
AfterLoop_LeftWins(one, two) ==
    IF one = <<>> /\ two = <<>> THEN 0 ELSE 1

\* what is decided after the segment loop, pkg.c:992-995
AfterLoop(one, two) ==
    IF one = <<>> /\ two = <<>> THEN 0
    ELSE IF one = <<>> THEN -1 ELSE 1

\* One pass of the loop body, pkg.c:930-986.  The result records the value
\* returned (rc), the return statement that produced it (how) and what was
\* left of both strings after the separators were skipped in the last pass.
RECURSIVE SegmentLoop(_, _)
SegmentLoop(one0, two0) ==
    IF one0 = <<>> \/ two0 = <<>>
    THEN [rc |-> AfterLoop(one0, two0), how |-> "end", one |-> one0, two |-> two0,
          skipped |-> FALSE]
    ELSE
      LET one   == SkipNonAlnum(one0)
          two   == SkipNonAlnum(two0)
          isnum == one # <<>> /\ isdigit(Head(one))
          n1    == IF isnum THEN DigitRun(one) ELSE AlphaRun(one)
          n2    == IF isnum THEN DigitRun(two) ELSE AlphaRun(two)
          seg1  == IF isnum THEN StripZeros(Take(one, n1)) ELSE Take(one, n1)
          seg2  == IF isnum THEN StripZeros(Take(two, n2)) ELSE Take(two, n2)
          rc    == strcmp(seg1, seg2)
          at(r, h) == [rc |-> r, how |-> h, one |-> one, two |-> two,
                       skipped |-> TRUE]
      IN  IF n1 = 0 THEN at(-1, "mismatch")
          ELSE IF n2 = 0 THEN at(-1, "mismatch")
          ELSE IF isnum /\ Len(seg1) > Len(seg2) THEN at(1, "numlen")
          ELSE IF isnum /\ Len(seg2) > Len(seg1) THEN at(-1, "numlen")
          ELSE IF rc # 0 THEN at(rc, "strcmp")
          ELSE SegmentLoop(Drop(one, n1), Drop(two, n2))

rpmvercmp_trace(a, b) ==
    IF a = b
    THEN [rc |-> 0, how |-> "identical", one |-> a, two |-> b, skipped |-> FALSE]
    ELSE SegmentLoop(a, b)

rpmvercmp(a, b) == rpmvercmp_trace(a, b).rc

compare_versions(a, b) == rpmvercmp(a, b)

----------------------------------------------------------------------------
(* version_test, pkg.c:1004-1045.                                          *)

Comparisons == {"LESS_THAN", "GREATER_THAN", "LESS_THAN_EQUAL",
                "GREATER_THAN_EQUAL", "EQUAL", "NOT_EQUAL", "ALWAYS_MATCH"}

\* mutant: LESS_THAN_EQUAL tested as a strict comparison
version_test_StrictLessEq(comparison, a, b) ==
    CASE comparison = "LESS_THAN"          -> compare_versions(a, b) < 0
      [] comparison = "GREATER_THAN"       -> compare_versions(a, b) > 0
      [] comparison = "LESS_THAN_EQUAL"    -> compare_versions(a, b) < 0
      [] comparison = "GREATER_THAN_EQUAL" -> compare_versions(a, b) >= 0
      [] comparison = "EQUAL"              -> compare_versions(a, b) = 0
      [] comparison = "NOT_EQUAL"          -> compare_versions(a, b) # 0
      [] comparison = "ALWAYS_MATCH"       -> TRUE

version_test(comparison, a, b) ==
    CASE comparison = "LESS_THAN"          -> compare_versions(a, b) < 0
      [] comparison = "GREATER_THAN"       -> compare_versions(a, b) > 0
      [] comparison = "LESS_THAN_EQUAL"    -> compare_versions(a, b) <= 0
      [] comparison = "GREATER_THAN_EQUAL" -> compare_versions(a, b) >= 0
      [] comparison = "EQUAL"              -> compare_versions(a, b) = 0
      [] comparison = "NOT_EQUAL"          -> compare_versions(a, b) # 0
      [] comparison = "ALWAYS_MATCH"       -> TRUE


----------------------------------------------------------------------------
(* The Package object as pkg.c uses it, and the options NULL / non-NULL.   *)

NULL == 0
EmptyMap == [x \in {} |-> 0]
None == [some |-> FALSE, val |-> <<>>]
Some(v) == [some |-> TRUE, val |-> v]

\* g_new0 (Package, 1): every field NULL
NewPackage ==
    [key |-> None, name |-> None, version |-> None, description |-> None,
     pcfiledir |-> None, uninstalled |-> FALSE,
     requires_entries |-> <<>>, requires |-> <<>>, required_versions |-> EmptyMap,
     conflicts |-> <<>>, vars |-> EmptyMap, url |-> None,
     requires_private_entries |-> <<>>, libs |-> <<>>, libs_private |-> <<>>,
     cflags |-> <<>>, orig_prefix |-> None,
     l_libs |-> <<>>, L_libs |-> <<>>, I_cflags |-> <<>>,
     other_libs |-> None, other_cflags |-> None,
     l_libs_merged |-> None, L_libs_merged |-> None, I_cflags_merged |-> None]

\* the GetListFunc selectors, pkg.c:358-388
get_l_libs(pkg) == pkg.l_libs
get_L_libs(pkg) == pkg.L_libs
get_I_cflags(pkg) == pkg.I_cflags
get_conflicts(pkg) == pkg.conflicts
get_requires(pkg) == pkg.requires

GetList(func, pkg) ==
    CASE func = "get_l_libs"    -> get_l_libs(pkg)
      [] func = "get_L_libs"    -> get_L_libs(pkg)
      [] func = "get_I_cflags"  -> get_I_cflags(pkg)
      [] func = "get_conflicts" -> get_conflicts(pkg)
      [] func = "get_requires"  -> get_requires(pkg)

----------------------------------------------------------------------------
(* The merger, pkg.c:276-356 and 390-408.                                  *)

Contains(list, x) == \E i \in 1..Len(list) : list[i] = x

Reverse(list) == [i \in 1..Len(list) |-> list[Len(list) + 1 - i]]

\* mutant: a repeated string replaces its earlier occurrence
RECURSIVE StripLoop_KeepLater(_, _)
StripLoop_KeepLater(tmp, nodups) ==
    IF tmp = <<>> THEN nodups
    ELSE StripLoop_KeepLater(Tail(tmp),
            <<Head(tmp)>> \o SelectSeq(nodups, LAMBDA x : x # Head(tmp)))

\* the loop of string_list_strip_duplicates: nodups is built by prepending
RECURSIVE StripLoop(_, _)
StripLoop(tmp, nodups) ==
    IF tmp = <<>> THEN nodups
    ELSE IF ~Contains(nodups, Head(tmp))
         THEN StripLoop(Tail(tmp), <<Head(tmp)>> \o nodups)
         ELSE StripLoop(Tail(tmp), nodups)

string_list_strip_duplicates(list) == Reverse(StripLoop(list, <<>>))

string_list_strip_duplicates_from_back(list) == StripLoop(Reverse(list), <<>>)

\* g_string_append (str, tmp->data); g_string_append_c (str, ' ');
\* the string is kept as the sequence of its pieces, a blank being " "
RECURSIVE string_list_to_string(_)
string_list_to_string(list) ==
    IF list = <<>> THEN <<>>
    ELSE <<Head(list), " ">> \o string_list_to_string(Tail(list))

RECURSIVE recursive_fill_list(_, _, _, _)
RECURSIVE FillRequires(_, _, _, _)
\* mutant: the package's own list is appended after those of its requirements
recursive_fill_list_PostOrder(h, pkg, func, list) ==
    FillRequires(h, h[pkg].requires, func, list) \o GetList(func, h[pkg])

recursive_fill_list(h, pkg, func, list) ==
    FillRequires(h, h[pkg].requires, func, list \o GetList(func, h[pkg]))

\* the while loop over pkg->requires, pkg.c:400-407
FillRequires(h, tmp, func, list) ==
    IF tmp = <<>> THEN list
    ELSE FillRequires(h, Tail(tmp), func, recursive_fill_list(h, Head(tmp), func, list))

\* the loop over pkgs in get_multi_merged, pkg.c:590-596
RECURSIVE FillAll(_, _, _, _)
FillAll(h, pkgs, func, list) ==
    IF pkgs = <<>> THEN list
    ELSE FillAll(h, Tail(pkgs), func, recursive_fill_list(h, Head(pkgs), func, list))

\* get_merged / get_merged_from_back / get_multi_merged(_from_back): the three
\* locals dups_list, list, retval
Merged(h, pkgs, func, fromBack) ==
    LET dups_list == FillAll(h, pkgs, func, <<>>)
        list      == IF fromBack THEN string_list_strip_duplicates_from_back(dups_list)
                                 ELSE string_list_strip_duplicates(dups_list)
    IN  [dups_list |-> dups_list, list |-> list, retval |-> string_list_to_string(list)]

get_merged(h, pkg, func) == Merged(h, <<pkg>>, func, FALSE)
get_merged_from_back(h, pkg, func) == Merged(h, <<pkg>>, func, TRUE)
get_multi_merged(h, pkgs, func) == Merged(h, pkgs, func, FALSE)
get_multi_merged_from_back(h, pkgs, func) == Merged(h, pkgs, func, TRUE)

NoCall == [fn |-> "none", pkgs |-> <<>>, cached |-> FALSE]

NoGet == [name |-> <<>>, ret |-> NULL, cached |-> FALSE, called |-> FALSE]

\* the registry before anything was called
RegIdle ==
    /\ search_dirs = <<>> /\ given = <<>> /\ initted = FALSE
    /\ locations = EmptyMap /\ packages = EmptyMap /\ globals = EmptyMap
    /\ freed = {}
    /\ disable_uninstalled = FALSE /\ define_prefix = FALSE
    /\ parse_strict = TRUE
    /\ fatal = "" /\ gcall = NoGet /\ diag = {}
    /\ stored = {} /\ firstRet = EmptyMap

\* the parser before anything was read
ParseIdle ==
    /\ stream = <<>> /\ rpos = 0 /\ rlines = <<>>
    /\ pin = <<>> /\ pout = <<>> /\ pstep = "off"

NoCmp == [ab |-> [rc |-> 0, how |-> "none", one |-> <<>>, two |-> <<>>, skipped |-> FALSE],
          ba |-> [rc |-> 0, how |-> "none", one |-> <<>>, two |-> <<>>, skipped |-> FALSE]]
NoTest == [op \in Comparisons |-> FALSE]

\* the comparator and the merger before anything was called
VerIdle == va = <<>> /\ vb = <<>> /\ vpc = "off" /\ vcmp = NoCmp /\ vtest = NoTest

MergeIdle == heap = <<>> /\ mcall = NoCall /\ mdups = <<>> /\ mlist = <<>> /\ mout = <<>>

----------------------------------------------------------------------------
(* String helpers of the registry, pkg.c:39-68 and the libc / glib calls   *)
(* internal_get_package makes.                                             *)

EXT_LEN == 3
UNINSTALLED_LEN == 11

DOTPC == <<".", "p", "c">>
UNINSTALLED == <<"u", "n", "i", "n", "s", "t", "a", "l", "l", "e", "d">>

EndsWith(str, suffix) ==
    Len(str) >= Len(suffix) /\ Drop(str, Len(str) - Len(suffix)) = suffix

ends_in_dotpc(str) ==
    LET len == Len(str)
    IN  len > EXT_LEN /\ str[len - 2] = "." /\ str[len - 1] = "p" /\ str[len] = "c"

name_ends_in_uninstalled(str) ==
    LET len == Len(str)
    IN  len > UNINSTALLED_LEN /\ Drop(str, len - UNINSTALLED_LEN) = UNINSTALLED

\* strstr (haystack, needle) != NULL
strstr(haystack, needle) ==
    \E i \in 0..(Len(haystack) - Len(needle)) :
        SubSeq(haystack, i + 1, i + Len(needle)) = needle

\* index of the last '/' of a path, 0 when there is none
RECURSIVE LastSlash(_, _)
LastSlash(path, i) ==
    IF i = 0 THEN 0 ELSE IF path[i] = "/" THEN i ELSE LastSlash(path, i - 1)

\* g_dirname (path)
g_dirname(path) ==
    LET i == LastSlash(path, Len(path))
    IN  IF i = 0 THEN <<".">> ELSE IF i = 1 THEN <<"/">> ELSE Take(path, i - 1)

\* pkg.c:247-257: the key of a package named by its file; start and end are
\* offsets into name, start walking back to the last '/' or to the beginning
RECURSIVE KeyStart(_, _)
KeyStart(name, start) ==
    IF start # 0 /\ name[start + 1] # "/" THEN KeyStart(name, start - 1) ELSE start

KeyOfFile(name) ==
    LET end   == Len(name) - EXT_LEN
        start == KeyStart(name, end)
    IN  SubSeq(name, start + 1, end)

MapPut(f, k, v) == [x \in DOMAIN f \cup {k} |-> IF x = k THEN v ELSE f[x]]

----------------------------------------------------------------------------
(* The file system the registry reads: two directories that may be put on  *)
(* the search path and the compiled-in PKGLIBDIR.  A descriptor is the     *)
(* sequence of its logical lines, each already split into tag and value;   *)
(* the value of Requires and Conflicts is the list of its modules.         *)

DirP == <<"p">>
DirQ == <<"q", "/">>
PKGLIBDIR == <<"s">>
SearchableDirs == {DirP, DirQ}

V1  == <<"1">>
V2  == <<"2">>
V19 == <<"1", ".", "9">>
V20 == <<"2", ".", "0">>

KeyA == <<"a">>
KeyB == <<"b">>
KeyC == <<"c">>
KeyD == <<"d">>
KeyE == <<"e">>
KeyF == <<"f">>
KeyZ == <<"z">>
KeyBUn == KeyB \o <<"-">> \o UNINSTALLED

\* a keyword line `tag: val` and a variable line `tag=val`
Field(tag, val) == [tag |-> tag, val |-> val, var |-> FALSE]
Variable(tag, val) == [tag |-> tag, val |-> val, var |-> TRUE]

\* a module as it is written in a Requires or Conflicts line
Module(name, comparison, version) ==
    name \o <<" ">> \o
    (CASE comparison = "EQUAL" -> <<"=">>
       [] comparison = "GREATER_THAN_EQUAL" -> <<">", "=">>
       [] comparison = "LESS_THAN_EQUAL" -> <<"<", "=">>
       [] comparison = "GREATER_THAN" -> <<">">>
       [] comparison = "LESS_THAN" -> <<"<">>
       [] comparison = "NOT_EQUAL" -> <<"!", "=">>)
    \o <<" ">> \o version.val
Module0(name) == name

RECURSIVE Listed(_)
Listed(mods) ==
    IF mods = <<>> THEN <<>>
    ELSE IF Len(mods) = 1 THEN Head(mods)
    ELSE Head(mods) \o <<",", " ">> \o Listed(Tail(mods))

Deps(tag, mods) == Field(tag, Listed(mods))

Plain(k, v) == <<Field("Name", k), Field("Version", v), Field("Description", <<"d">>)>>

Files ==
    [dir \in {<<"p">>, <<"q">>, <<"s">>} |->
       CASE dir = <<"p">> ->
              (   <<"a">> \o DOTPC :> Plain(KeyA, V1) \o
                      <<Deps("Requires", <<Module(KeyB, "GREATER_THAN_EQUAL", Some(V20))>>),
                        Deps("Conflicts", <<Module(KeyC, "GREATER_THAN_EQUAL", Some(V20))>>)>>
               @@ <<"e">> \o DOTPC :> <<Field("Name", <<>>), Field("Version", <<" ">>),
                                        Field("Description", <<>>)>>
               @@ <<"x">> :> <<>>
               @@ DOTPC :> <<>> )
         [] dir = <<"q">> ->
              (   <<"a">> \o DOTPC :> Plain(KeyA, V2) \o
                      <<Deps("Requires", <<Module(KeyB, "LESS_THAN", Some(V20))>>)>>
               @@ <<"b">> \o DOTPC :> Plain(KeyB, V19)
               @@ KeyBUn \o DOTPC :> Plain(KeyB, V20)
               @@ <<"e">> \o DOTPC :> <<Field("Name", KeyE), Field("Description", <<"d">>)>> )
         [] dir = <<"s">> ->
              (   <<"b">> \o DOTPC :> Plain(KeyB, V20)
               @@ <<"d">> \o DOTPC :> Plain(KeyD, V1) \o
                      <<Deps("Requires", <<Module0(KeyB)>>),
                        Deps("Conflicts", <<Module(KeyB, "LESS_THAN", Some(V20))>>)>>
               @@ <<"e">> \o DOTPC :> <<Field("Name", KeyE), Field("Version", V1)>>
               @@ <<"f">> \o DOTPC :> <<Field("Version", V1), Field("Version", V2),
                                        Field("Description", <<"d">>)>> )]

\* the directory a name opens: a trailing '/' makes no difference to opendir
OpenDir(dirname) ==
    IF Len(dirname) > 1 /\ dirname[Len(dirname)] = "/"
    THEN Take(dirname, Len(dirname) - 1) ELSE dirname

DirExists(dirname) == OpenDir(dirname) \in DOMAIN Files

\* readdir: the names in a directory
Readdir(dirname) == DOMAIN Files[OpenDir(dirname)]

\* fopen (path, "r") succeeds
FileExists(path) ==
    LET i == LastSlash(path, Len(path))
    IN  /\ i > 1
        /\ Take(path, i - 1) \in DOMAIN Files
        /\ Drop(path, i) \in DOMAIN Files[Take(path, i - 1)]

FileLines(path) ==
    LET i == LastSlash(path, Len(path))
    IN  Files[Take(path, i - 1)][Drop(path, i)]

----------------------------------------------------------------------------
(* The descriptor parser as far as the registry needs it, parse.c:141-270, *)
(* 528-534, 773-857 and 956-1021.                                          *)

isspace(c) == c \in {" ", "\t", "\n", "\r", "\f"}

RECURSIVE SkipSpace(_)
SkipSpace(str) == IF str # <<>> /\ isspace(Head(str)) THEN SkipSpace(Tail(str)) ELSE str

RECURSIVE TrimmedLen(_, _)
TrimmedLen(str, len) ==
    IF len > 0 /\ isspace(str[len]) THEN TrimmedLen(str, len - 1) ELSE len

trim_string(str) ==
    LET lead == SkipSpace(str) IN Take(lead, TrimmedLen(lead, Len(lead)))

\* package_get_var, pkg.c:844-861
\* copy says whether the string returned came from g_strdup: the value found
\* in globals is returned as it is stored there
package_get_var(pkg, var) ==
    IF var \in DOMAIN globals
    THEN [some |-> TRUE, val |-> globals[var], copy |-> FALSE]
    ELSE IF var \in DOMAIN pkg.vars
    THEN [some |-> TRUE, val |-> pkg.vars[var], copy |-> TRUE]
    ELSE IF pkg.pcfiledir.some /\ var = <<"p", "c", "f", "i", "l", "e", "d", "i", "r">>
    THEN [some |-> TRUE, val |-> pkg.pcfiledir.val, copy |-> TRUE]
    ELSE [some |-> FALSE, val |-> <<>>, copy |-> TRUE]

\* offset of the first '}' at or after p, Len + 1 when there is none
RECURSIVE CloseBrace(_, _)
CloseBrace(str, p) ==
    IF p <= Len(str) /\ str[p] # "}" THEN CloseBrace(str, p + 1) ELSE p

\* the loop of trim_and_sub, parse.c:169-218; p is an index into trimmed.
\* undefined records that verbose_error reported an undefined variable.
\* For a "${" that is never closed the scan for '}' stops at the terminating
\* NUL and ++p steps past it (parse.c:190-195): p is then Len + 2, outside
\* the string, and what the loop reads next is not defined; the result says
\* so in overrun and holds what was built up to there.
RECURSIVE SubLoop(_, _, _, _, _)

\* mutant: the text a variable expands to is scanned again
Subst_Rescanned(pkg, subst, varval) == subst \o SubLoop(pkg, varval, 1, <<>>, FALSE).str

\* g_string_append (subst, varval);
Subst(pkg, subst, varval) == subst \o varval

SubLoop(pkg, trimmed, p, subst, undefined) ==
    IF p > Len(trimmed)
    THEN [str |-> subst, undefined |-> undefined, overrun |-> p > Len(trimmed) + 1]
    ELSE IF trimmed[p] = "$" /\ p < Len(trimmed) /\ trimmed[p + 1] = "$"
         THEN SubLoop(pkg, trimmed, p + 2, Append(subst, "$"), undefined)
    ELSE IF trimmed[p] = "$" /\ p < Len(trimmed) /\ trimmed[p + 1] = "{"
         THEN LET close   == CloseBrace(trimmed, p)
                  varname == SubSeq(trimmed, p + 2, close - 1)
                  varval  == package_get_var(pkg, varname)
              IN  SubLoop(pkg, trimmed, close + 1,
                          IF varval.some THEN Subst(pkg, subst, varval.val) ELSE subst,
                          undefined \/ ~varval.some)
    ELSE SubLoop(pkg, trimmed, p + 1, Append(subst, trimmed[p]), undefined)

trim_and_sub(pkg, str) == SubLoop(pkg, trim_string(str), 1, <<>>, FALSE)

\* parse_name / parse_version / parse_description / parse_url,
\* parse.c:227-270 and 773-786.  The result is the package and whether the
\* process has exited.
ParseOnce(pkg, field, str) ==
    IF pkg[field].some
    THEN [pkg |-> pkg, exit |-> parse_strict]
    ELSE LET sub == trim_and_sub(pkg, str)
         IN  IF sub.undefined /\ parse_strict
             THEN [pkg |-> pkg, exit |-> TRUE]
             ELSE [pkg |-> [pkg EXCEPT ![field] = Some(sub.str)], exit |-> FALSE]

parse_name(pkg, str) == ParseOnce(pkg, "name", str)
parse_version(pkg, str) == ParseOnce(pkg, "version", str)
parse_description(pkg, str) == ParseOnce(pkg, "description", str)
parse_url(pkg, str) == ParseOnce(pkg, "url", str)

\* the printable ASCII characters in byte order, ' ' (32) to '~' (126)
Printable ==
    <<" ", "!", "\"", "#", "$", "%", "&", "'", "(", ")", "*", "+", ",", "-", ".", "/",
      "0", "1", "2", "3", "4", "5", "6", "7", "8", "9", ":", ";", "<", "=", ">", "?",
      "@", "A", "B", "C", "D", "E", "F", "G", "H", "I", "J", "K", "L", "M", "N", "O",
      "P", "Q", "R", "S", "T", "U", "V", "W", "X", "Y", "Z", "[", BSL, "]", "^", "_",
      BQ, "a", "b", "c", "d", "e", "f", "g", "h", "i", "j", "k", "l", "m", "n", "o",
      "p", "q", "r", "s", "t", "u", "v", "w", "x", "y", "z", "{", "|", "}", "~">>

\* the value of a char; '\t' is 9
Byte(c) ==
    IF c = "\t" THEN 9
    ELSE 31 + (CHOOSE i \in 1..Len(Printable) : Printable[i] = c)

\* the condition of strdup_escape_shell under which a byte gets a backslash,
\* parse.c:541-549
NeedsEscape(c) ==
    \/ Byte(c) < Byte("$")
    \/ Byte(c) > Byte("$") /\ Byte(c) < Byte("(")
    \/ Byte(c) > Byte(")") /\ Byte(c) < Byte("+")
    \/ Byte(c) > Byte(":") /\ Byte(c) < Byte("=")
    \/ Byte(c) > Byte("=") /\ Byte(c) < Byte("@")
    \/ Byte(c) > Byte("Z") /\ Byte(c) < Byte("^")
    \/ c = BQ
    \/ Byte(c) > Byte("z") /\ Byte(c) < Byte("~")
    \/ Byte(c) > Byte("~")

\* strdup_escape_shell, parse.c:536-563
RECURSIVE strdup_escape_shell(_)
strdup_escape_shell(s) ==
    IF s = <<>> THEN <<>>
    ELSE (IF NeedsEscape(Head(s)) THEN <<BSL, Head(s)>> ELSE <<Head(s)>>)
         \o strdup_escape_shell(Tail(s))

\* MODULE_SEPARATOR and OPERATOR_CHAR, parse.c:272-273
MODULE_SEPARATOR(c) == c = "," \/ isspace(c)
OPERATOR_CHAR(c) == c \in {"<", ">", "!", "="}

\* the first position from p on whose byte is not in skip (in skip, when inv),
\* Len(s) + 1 being the terminating NUL: the loops `while (*p && ...) ++p`
RECURSIVE Span(_, _, _, _)
Span(s, p, skip, inv) ==
    IF p > Len(s) THEN p
    ELSE IF (s[p] \in skip) = inv THEN p
    ELSE Span(s, p + 1, skip, inv)

Spaces == {" ", "\t", "\n", "\r", "\f"}
Separators == Spaces \cup {","}

\* mutant: a space after a name is taken to announce an operator without
\* looking ahead
SplitStep_NoLookahead(str, p, state) ==
    LET c == str[p] IN
    CASE state = "OUTSIDE_MODULE" ->
            IF ~MODULE_SEPARATOR(c) THEN "IN_MODULE_NAME" ELSE state
      [] state = "IN_MODULE_NAME" ->
            IF isspace(c) THEN "BEFORE_OPERATOR"
            ELSE IF MODULE_SEPARATOR(c) THEN "OUTSIDE_MODULE"
            ELSE state
      [] state = "BEFORE_OPERATOR" ->
            IF isspace(c) THEN state
            ELSE IF OPERATOR_CHAR(c) THEN "IN_OPERATOR"
            ELSE "g_assert_not_reached"
      [] state = "IN_OPERATOR" ->
            IF ~OPERATOR_CHAR(c) THEN "AFTER_OPERATOR" ELSE state
      [] state = "AFTER_OPERATOR" ->
            IF ~isspace(c) THEN "IN_MODULE_VERSION" ELSE state
      [] state = "IN_MODULE_VERSION" ->
            IF MODULE_SEPARATOR(c) THEN "OUTSIDE_MODULE" ELSE state
      [] state = "g_assert_not_reached" -> state

\* the state after one byte of split_module_list, parse.c:314-363;
\* g_assert_not_reached aborts the process, which is the state of that name
SplitStep(str, p, state) ==
    LET c == str[p] IN
    CASE state = "OUTSIDE_MODULE" ->
            IF ~MODULE_SEPARATOR(c) THEN "IN_MODULE_NAME" ELSE state
      [] state = "IN_MODULE_NAME" ->
            IF isspace(c)
            THEN LET s == Span(str, p, Spaces, FALSE)
                 IN  IF s <= Len(str) /\ OPERATOR_CHAR(str[s])
                     THEN "BEFORE_OPERATOR" ELSE "OUTSIDE_MODULE"
            ELSE IF MODULE_SEPARATOR(c) THEN "OUTSIDE_MODULE"
            ELSE state
      [] state = "BEFORE_OPERATOR" ->
            IF isspace(c) THEN state
            ELSE IF OPERATOR_CHAR(c) THEN "IN_OPERATOR"
            ELSE "g_assert_not_reached"
      [] state = "IN_OPERATOR" ->
            IF ~OPERATOR_CHAR(c) THEN "AFTER_OPERATOR" ELSE state
      [] state = "AFTER_OPERATOR" ->
            IF ~isspace(c) THEN "IN_MODULE_VERSION" ELSE state
      [] state = "IN_MODULE_VERSION" ->
            IF MODULE_SEPARATOR(c) THEN "OUTSIDE_MODULE" ELSE state
      [] state = "g_assert_not_reached" -> state

\* the locals of split_module_list before its loop, parse.c:298-305
SplitStart == [p |-> 1, start |-> 1, last_state |-> "OUTSIDE_MODULE", retval |-> <<>>]

\* one iteration of the while loop of split_module_list, parse.c:307-385;
\* retval is built by prepending
SplitIter(str, st) ==
    CHOOSE next \in
        {LET begun == st.last_state = "OUTSIDE_MODULE" /\ state = "IN_MODULE_NAME"
             left  == state = "OUTSIDE_MODULE" /\ st.last_state # "OUTSIDE_MODULE"
         IN  [p |-> st.p + 1,
              start |-> IF begun \/ left THEN st.p ELSE st.start,
              last_state |-> state,
              retval |-> IF left THEN <<SubSeq(str, st.start, st.p - 1)>> \o st.retval
                         ELSE st.retval] :
            state \in {SplitStep(str, st.p, st.last_state)}} : TRUE

\* what split_module_list returns when the loop has ended, parse.c:387-403
SplitEnd(str, st) ==
    Reverse(IF st.last_state # "OUTSIDE_MODULE"
            THEN <<SubSeq(str, st.start, Len(str))>> \o st.retval
            ELSE st.retval)

RECURSIVE SplitLoop(_, _)
SplitLoop(str, st) ==
    IF st.p > Len(str) THEN SplitEnd(str, st)
    ELSE CHOOSE res \in {SplitLoop(str, next) : next \in {SplitIter(str, st)}} : TRUE

\* split_module_list, parse.c:295-407
split_module_list(str) == SplitLoop(str, SplitStart)

\* the comparison an operator token names, parse.c:461-472
Comparison(op) ==
    CASE op = <<"=">>      -> "EQUAL"
      [] op = <<">", "=">> -> "GREATER_THAN_EQUAL"
      [] op = <<"<", "=">> -> "LESS_THAN_EQUAL"
      [] op = <<">">>      -> "GREATER_THAN"
      [] op = <<"<">>      -> "LESS_THAN"
      [] op = <<"!", "=">> -> "NOT_EQUAL"
      [] OTHER             -> "unknown"

\* the body of the for loop of do_parse_module_list for one module string,
\* parse.c:423-517: the RequiredVersion it leaves in the list and whether it
\* reported an error
ParseModule(module, owner) ==
    LET p1   == Span(module, 1, Spaces, TRUE)
        s2   == Span(module, p1, Spaces, FALSE)
        p2   == Span(module, s2, Spaces, TRUE)
        s3   == Span(module, p2, Spaces, FALSE)
        p3   == Span(module, s3, Separators, TRUE)
        name == SubSeq(module, 1, p1 - 1)
        op   == SubSeq(module, s2, p2 - 1)
        vers == SubSeq(module, s3, p3 - 1)
        ver  == [name |-> name, comparison |-> "ALWAYS_MATCH", version |-> None,
                 owner |-> owner]
    IN  IF op # <<>> /\ Comparison(op) = "unknown"
        THEN [ver |-> <<ver>>, error |-> TRUE]
        ELSE LET cmp == IF op # <<>> THEN Comparison(op) ELSE "ALWAYS_MATCH"
             IN  IF cmp # "ALWAYS_MATCH" /\ vers = <<>>
                 THEN [ver |-> <<[ver EXCEPT !.comparison = cmp,
                                             !.version = Some(<<"0">>)]>>,
                       error |-> TRUE]
                 ELSE [ver |-> <<[ver EXCEPT !.comparison = cmp,
                                             !.version = IF vers # <<>> THEN Some(vers)
                                                         ELSE None]>>,
                       error |-> FALSE]

\* the for loop of do_parse_module_list, parse.c:419-521: every
\* RequiredVersion is prepended to the list; an error exits under
\* parse_strict and goes on to the next module otherwise
RECURSIVE ModuleLoop(_, _, _, _)
ModuleLoop(list, split, owner, strict) ==
    IF split = <<>> THEN [list |-> list, exit |-> FALSE]
    ELSE CHOOSE res \in {IF r.error /\ strict
                         THEN [list |-> r.ver \o list, exit |-> TRUE]
                         ELSE ModuleLoop(r.ver \o list, Tail(split), owner, strict) :
                            r \in {ParseModule(Head(split), owner)}} : TRUE

do_parse_module_list(list, str, owner, strict) ==
    CHOOSE res \in {ModuleLoop(list, split, owner, strict) :
                        split \in {split_module_list(str)}} : TRUE

\* parse_module_list, parse.c:520-526
parse_module_list(str, owner, strict) ==
    LET r == do_parse_module_list(<<>>, str, owner, strict)
    IN  [list |-> Reverse(r.list), exit |-> r.exit]

\* parse_deps, parse.c:528-534
parse_deps(pkg, field, str, owner) ==
    CHOOSE res \in
        {IF sub.undefined /\ parse_strict
         THEN [pkg |-> pkg, exit |-> TRUE]
         ELSE CHOOSE res \in {[pkg |-> [pkg EXCEPT ![field] = r.list], exit |-> r.exit] :
                    r \in {do_parse_module_list(pkg[field], sub.str, owner, parse_strict)}} :
                 TRUE :
            sub \in {trim_and_sub(pkg, str)}} : TRUE

\* g_shell_parse_argv for a string without quotes, backslashes or '#': the
\* words between white space; it fails on an empty string only, which its
\* callers do not pass
RECURSIVE ShellWords(_)
ShellWords(str) ==
    LET from == Span(str, 1, Spaces, FALSE)
        to   == Span(str, from, Spaces, TRUE)
    IN  IF from > Len(str) THEN <<>>
        ELSE <<SubSeq(str, from, to - 1)>> \o ShellWords(Drop(str, to - 1))

Flag(type, arg) == [type |-> type, arg |-> arg]

StartsWith(str, prefix) == Len(str) >= Len(prefix) /\ Take(str, Len(prefix)) = prefix

FRAMEWORK == <<"-", "f", "r", "a", "m", "e", "w", "o", "r", "k">>
WL_FRAMEWORK == <<"-", "W", "l", ",">> \o FRAMEWORK
IDIRAFTER == <<"-", "i", "d", "i", "r", "a", "f", "t", "e", "r">>
ISYSTEM == <<"-", "i", "s", "y", "s", "t", "e", "m">>

\* mutant: the token after -framework is joined but not consumed
RECURSIVE do_parse_libs_NoConsume(_, _, _)
do_parse_libs_NoConsume(list, argv, i) ==
    IF i > Len(argv) THEN list
    ELSE LET arg == strdup_escape_shell(trim_string(argv[i]))
         IN  IF StartsWith(arg, <<"-", "l">>) /\ ~StartsWith(arg, <<"-", "l", "i", "b", ":">>)
             THEN do_parse_libs_NoConsume(
                    <<Flag("LIBS_l", <<"-", "l">> \o SkipSpace(Drop(arg, 2)))>> \o list,
                    argv, i + 1)
             ELSE IF StartsWith(arg, <<"-", "L">>)
             THEN do_parse_libs_NoConsume(
                    <<Flag("LIBS_L", <<"-", "L">> \o SkipSpace(Drop(arg, 2)))>> \o list,
                    argv, i + 1)
             ELSE IF arg \in {FRAMEWORK, WL_FRAMEWORK} /\ i + 1 <= Len(argv)
             THEN do_parse_libs_NoConsume(
                    <<Flag("LIBS_OTHER",
                           arg \o <<" ">> \o strdup_escape_shell(trim_string(argv[i + 1])))>>
                        \o list,
                    argv, i + 1)
             ELSE IF arg # <<>>
             THEN do_parse_libs_NoConsume(<<Flag("LIBS_OTHER", arg)>> \o list, argv, i + 1)
             ELSE do_parse_libs_NoConsume(list, argv, i + 1)

\* do_parse_libs, parse.c:565-648, from argv[i] on (1-based)
RECURSIVE do_parse_libs(_, _, _)
do_parse_libs(list, argv, i) ==
    IF i > Len(argv) THEN list
    ELSE LET arg == strdup_escape_shell(trim_string(argv[i]))
         IN  IF StartsWith(arg, <<"-", "l">>) /\ ~StartsWith(arg, <<"-", "l", "i", "b", ":">>)
             THEN do_parse_libs(
                    <<Flag("LIBS_l", <<"-", "l">> \o SkipSpace(Drop(arg, 2)))>> \o list,
                    argv, i + 1)
             ELSE IF StartsWith(arg, <<"-", "L">>)
             THEN do_parse_libs(
                    <<Flag("LIBS_L", <<"-", "L">> \o SkipSpace(Drop(arg, 2)))>> \o list,
                    argv, i + 1)
             ELSE IF arg \in {FRAMEWORK, WL_FRAMEWORK} /\ i + 1 <= Len(argv)
             THEN do_parse_libs(
                    <<Flag("LIBS_OTHER",
                           arg \o <<" ">> \o strdup_escape_shell(trim_string(argv[i + 1])))>>
                        \o list,
                    argv, i + 2)
             ELSE IF arg # <<>>
             THEN do_parse_libs(<<Flag("LIBS_OTHER", arg)>> \o list, argv, i + 1)
             ELSE do_parse_libs(list, argv, i + 1)

\* parse_libs, parse.c:650-680
parse_libs(pkg, field, str) ==
    LET sub == trim_and_sub(pkg, str)
    IN  IF sub.undefined /\ parse_strict
        THEN [pkg |-> pkg, exit |-> TRUE]
        ELSE [pkg |-> [pkg EXCEPT ![field] = do_parse_libs(pkg[field], ShellWords(sub.str), 1)],
              exit |-> FALSE]

\* the while loop of parse_cflags, parse.c:721-768
RECURSIVE CflagsLoop(_, _, _)
CflagsLoop(list, argv, i) ==
    IF i > Len(argv) THEN list
    ELSE LET arg == strdup_escape_shell(trim_string(argv[i]))
         IN  IF StartsWith(arg, <<"-", "I">>)
             THEN CflagsLoop(
                    <<Flag("CFLAGS_I", <<"-", "I">> \o SkipSpace(Drop(arg, 2)))>> \o list,
                    argv, i + 1)
             ELSE IF arg \in {IDIRAFTER, ISYSTEM} /\ i + 1 <= Len(argv)
             THEN CflagsLoop(
                    <<Flag("CFLAGS_I",
                           arg \o <<" ">> \o strdup_escape_shell(trim_string(argv[i + 1])))>>
                        \o list,
                    argv, i + 2)
             ELSE IF arg # <<>>
             THEN CflagsLoop(<<Flag("CFLAGS_OTHER", arg)>> \o list, argv, i + 1)
             ELSE CflagsLoop(list, argv, i + 1)

\* parse_cflags, parse.c:682-772
parse_cflags(pkg, str) ==
    IF pkg.cflags # <<>>
    THEN [pkg |-> pkg, exit |-> parse_strict]
    ELSE LET sub == trim_and_sub(pkg, str)
         IN  IF sub.undefined /\ parse_strict
             THEN [pkg |-> pkg, exit |-> TRUE]
             ELSE [pkg |-> [pkg EXCEPT !.cflags = CflagsLoop(<<>>, ShellWords(sub.str), 1)],
                   exit |-> FALSE]

prefix_variable == <<"p", "r", "e", "f", "i", "x">>

\* g_ascii_tolower
ToLower(c) ==
    IF Byte(c) >= Byte("A") /\ Byte(c) <= Byte("Z") THEN Printable[Byte(c) + 32 - 31] ELSE c

\* g_path_get_basename for a path that does not end in '/'
g_path_get_basename(path) == Drop(path, LastSlash(path, Len(path)))

\* g_path_get_dirname for a path that does not end in '/'
g_path_get_dirname(path) == g_dirname(path)

\* is_pkgconfigdir, parse.c:875-877
is_pkgconfigdir(pkg) ==
    LET base == g_path_get_basename(pkg.pcfiledir.val)
    IN  [i \in 1..Len(base) |-> ToLower(base[i])]
            = <<"p", "k", "g", "c", "o", "n", "f", "i", "g">>

\* parse.c:888-910: the grandparent directory of the descriptor, backslashes
\* turned into slashes, shell-escaped
GuessedPrefix(pkg) ==
    LET prefix == g_path_get_dirname(g_path_get_dirname(pkg.pcfiledir.val))
    IN  strdup_escape_shell([i \in 1..Len(prefix) |->
                                IF prefix[i] = BSL THEN "/" ELSE prefix[i]])

\* the variable branch of parse_line, parse.c:858-949; p is the text after
\* '=' and the white space behind it
parse_variable(pkg, tag, p) ==
    IF define_prefix /\ tag = prefix_variable /\ is_pkgconfigdir(pkg)
    THEN [pkg |-> [pkg EXCEPT !.orig_prefix = Some(p),
                              !.vars = MapPut(pkg.vars, tag, GuessedPrefix(pkg))],
          exit |-> FALSE]
    ELSE LET relocate ==
                 /\ ~(define_prefix /\ tag = prefix_variable)
                 /\ define_prefix
                 /\ pkg.orig_prefix.some
                 /\ pkg.orig_prefix.val # <<>>
                 /\ StartsWith(p, pkg.orig_prefix.val)
                 /\ Len(p) > Len(pkg.orig_prefix.val)
                 /\ p[Len(pkg.orig_prefix.val) + 1] = "/"
             q == IF relocate
                  THEN pkg.vars[prefix_variable] \o Drop(p, Len(pkg.orig_prefix.val))
                  ELSE p
         IN  IF tag \in DOMAIN pkg.vars
             THEN [pkg |-> pkg, exit |-> parse_strict]
             ELSE LET sub == trim_and_sub(pkg, q)
                  IN  IF sub.undefined /\ parse_strict
                      THEN [pkg |-> pkg, exit |-> TRUE]
                      ELSE [pkg |-> [pkg EXCEPT !.vars = MapPut(pkg.vars, tag, sub.str)],
                            exit |-> FALSE]

\* parse_line, parse.c:788-954, for a line already split into its tag, the
\* ':' or '=' behind it and the rest
parse_line(pkg, line, owner) ==
    IF line.var THEN parse_variable(pkg, line.tag, line.val)
    ELSE
    CASE line.tag = "Name"        -> parse_name(pkg, line.val)
      [] line.tag = "Description" -> parse_description(pkg, line.val)
      [] line.tag = "Version"     -> parse_version(pkg, line.val)
      [] line.tag = "Requires.private" ->
            parse_deps(pkg, "requires_private_entries", line.val, owner)
      [] line.tag = "Requires"    -> parse_deps(pkg, "requires_entries", line.val, owner)
      [] line.tag = "Libs.private" -> parse_libs(pkg, "libs_private", line.val)
      [] line.tag = "Libs"        -> parse_libs(pkg, "libs", line.val)
      [] line.tag \in {"Cflags", "CFlags"} -> parse_cflags(pkg, line.val)
      [] line.tag = "Conflicts"   -> parse_deps(pkg, "conflicts", line.val, owner)
      [] line.tag = "URL"         -> parse_url(pkg, line.val)
      [] OTHER                    -> [pkg |-> pkg, exit |-> FALSE]

\* while (read_one_line (f, str)) parse_line (pkg, str->str, path);
RECURSIVE ParseLines(_, _, _)
ParseLines(pkg, lines, owner) ==
    IF lines = <<>> THEN [pkg |-> pkg, exit |-> FALSE]
    ELSE CHOOSE res \in {IF r.exit THEN r ELSE ParseLines(r.pkg, Tail(lines), owner) :
                            r \in {parse_line(pkg, Head(lines), owner)}} : TRUE

\* parse_package_file, parse.c:956-1021, for a file that can be opened and
\* has the given lines; owner is the address of the Package being built
ParseFile(path, lines, owner) ==
    LET dir  == g_dirname(path)
        pkg0 == [NewPackage EXCEPT
                    !.pcfiledir = Some(dir),
                    !.vars = (<<"p", "c", "f", "i", "l", "e", "d", "i", "r">> :> dir)]
    IN  CHOOSE res \in
            {[pkg  |-> [r.pkg EXCEPT
                          !.requires_entries = Reverse(r.pkg.requires_entries),
                          !.requires_private_entries = Reverse(r.pkg.requires_private_entries),
                          !.conflicts = Reverse(r.pkg.conflicts),
                          !.cflags = Reverse(r.pkg.cflags),
                          !.libs = Reverse(r.pkg.libs),
                          !.libs_private = Reverse(r.pkg.libs_private)],
              exit |-> r.exit] : r \in {ParseLines(pkg0, lines, owner)}} : TRUE

parse_package_file(path, owner) == ParseFile(path, FileLines(path), owner)

----------------------------------------------------------------------------
(* The registry, pkg.c:33-37 and 70-274, and the verifier, pkg.c:428-540.  *)

\* scan_dir, pkg.c:74-130: the entries of dirname added to locations, names
\* already known being ignored
scan_dir(locs, dirname) ==
    IF ~DirExists(dirname) THEN locs
    ELSE
      LET dirnamelen == IF Len(dirname) > 0 /\ dirname[Len(dirname)] = "/"
                        THEN Len(dirname) - 1 ELSE Len(dirname)
          found == {d \in Readdir(dirname) : ends_in_dotpc(d)}
          fresh == {d \in found : Take(d, Len(d) - EXT_LEN) \notin DOMAIN locs}
          name(k) == CHOOSE d \in fresh : Take(d, Len(d) - EXT_LEN) = k
      IN  [k \in DOMAIN locs \cup {Take(d, Len(d) - EXT_LEN) : d \in fresh} |->
              IF k \in DOMAIN locs THEN locs[k]
              ELSE Take(dirname, dirnamelen) \o <<"/">> \o name(k)]

\* g_slist_foreach (search_dirs, (GFunc)scan_dir, NULL);
RECURSIVE ScanAll(_, _)
ScanAll(locs, dirs) ==
    IF dirs = <<>> THEN locs ELSE ScanAll(scan_dir(locs, Head(dirs)), Tail(dirs))

\* get_compat_package: the legacy -config fallback, which finds nothing here
get_compat_package(name) == NULL

\* What one call threads through its recursion: the two tables it writes,
\* the heap, the exit reason, the diagnostics and the insert history.
State(pk, h, f, dg, sto) ==
    [packages |-> pk, heap |-> h, fatal |-> f, diag |-> dg, stored |-> sto]

Ret(st, pkg) == [st |-> st, ret |-> pkg]

Exit(st, why) == Ret([st EXCEPT !.fatal = why], NULL)

Note(st, kind, name) == [st EXCEPT !.diag = @ \cup {[kind |-> kind, name |-> name]}]

\* mutant: the constraint is tested with the operands exchanged
RECURSIVE RequiresSatisfied_Swapped(_, _, _)
RequiresSatisfied_Swapped(h, pkg, iter) ==
    IF iter = <<>> THEN TRUE
    ELSE LET req == h[Head(iter)]
             ver == IF req.key.val \in DOMAIN pkg.required_versions
                    THEN Some(pkg.required_versions[req.key.val]) ELSE None
         IN  IF ver.some /\ ~version_test(ver.val.comparison, ver.val.version.val,
                                          req.version.val)
             THEN FALSE
             ELSE RequiresSatisfied_Swapped(h, pkg, Tail(iter))

\* the required-version loop of verify_package, pkg.c:467-496
RECURSIVE RequiresSatisfied(_, _, _)
RequiresSatisfied(h, pkg, iter) ==
    IF iter = <<>> THEN TRUE
    ELSE LET req == h[Head(iter)]
             ver == IF req.key.val \in DOMAIN pkg.required_versions
                    THEN Some(pkg.required_versions[req.key.val]) ELSE None
         IN  IF ver.some /\ ~version_test(ver.val.comparison, req.version.val,
                                          ver.val.version.val)
             THEN FALSE
             ELSE RequiresSatisfied(h, pkg, Tail(iter))

\* the conflict loops of verify_package, pkg.c:505-536: is there a package
\* of requires and an entry of conflicts that the test lets through
ConflictFound(h, requires, conflicts) ==
    \E i \in 1..Len(requires), j \in 1..Len(conflicts) :
        version_test(conflicts[j].comparison, h[requires[i]].version.val,
                     conflicts[j].version.val)

\* mutant: the required fields are not checked
verify_package_NoFields(h, p) ==
    LET pkg == h[p]
    IN  IF ~RequiresSatisfied(h, pkg, pkg.requires) THEN "requires"
        ELSE IF ConflictFound(h, recursive_fill_list(h, p, "get_requires", <<>>),
                              recursive_fill_list(h, p, "get_conflicts", <<>>))
             THEN "conflict"
        ELSE ""

\* verify_package, pkg.c:428-540: "" when it returns, else why it exits
verify_package(h, p) ==
    LET pkg == h[p]
    IN  IF ~pkg.key.some THEN "no key"
        ELSE IF ~pkg.name.some THEN "no Name"
        ELSE IF ~pkg.version.some THEN "no Version"
        ELSE IF ~pkg.description.some THEN "no Description"
        ELSE IF ~RequiresSatisfied(h, pkg, pkg.requires) THEN "requires"
        ELSE IF ConflictFound(h, recursive_fill_list(h, p, "get_requires", <<>>),
                              recursive_fill_list(h, p, "get_conflicts", <<>>))
             THEN "conflict"
        ELSE ""

\* A call's result is assigned once and then read: below it is bound by
\* {f(x) : x \in {call}}, the one element of which is taken.
RECURSIVE internal_get_package(_, _, _, _)
RECURSIVE ResolveRequires(_, _, _)

\* pkg.c:260-267: verify_package, then the insert into packages
VerifyAndInsert(st, p) ==
    LET why == verify_package(st.heap, p)
        key == st.heap[p].key.val
    IN  IF st.fatal # "" THEN Ret(st, NULL)
        ELSE IF why # "" THEN Exit(st, why)
        ELSE Ret([st EXCEPT !.packages = MapPut(st.packages, key, p),
                            !.stored = @ \cup {<<key, p>>}], p)

\* pkg.c:231-267: the descriptor at location is parsed into a new Package,
\* keyed, its requirements resolved, verified and inserted
LoadPackage(st, name, location, isfile) ==
    LET p      == Len(st.heap) + 1
        parsed == parse_package_file(location, p)
        keyed  == [parsed.pkg EXCEPT
                     !.uninstalled = strstr(location, UNINSTALLED \o DOTPC),
                     !.key = IF ~isfile THEN Some(name) ELSE Some(KeyOfFile(name))]
        st1    == [st EXCEPT !.heap = Append(st.heap, keyed)]
    IN  IF parsed.exit THEN Exit(st1, "parse")
        ELSE CHOOSE r \in {VerifyAndInsert(st2, p) :
                            st2 \in {ResolveRequires(st1, p, keyed.requires_entries)}} : TRUE

\* pkg.c:204-232: what follows the probe for the uninstalled variant, un
\* being what the probe returned
AfterProbe(un, name, warn, check_compat) ==
    LET isfile == ends_in_dotpc(name)
        st1    == un.st
        location == IF isfile THEN Some(name)
                    ELSE IF name \in DOMAIN locations THEN Some(locations[name])
                    ELSE None
        st2    == IF ~location.some /\ check_compat THEN Note(st1, "compat", name)
                  ELSE st1
    IN  IF st1.fatal # "" THEN un
        ELSE IF un.ret # NULL THEN un
        ELSE IF ~location.some /\ check_compat /\ get_compat_package(name) # NULL
             THEN Ret(st2, get_compat_package(name))
        ELSE IF ~location.some
             THEN Ret(IF warn THEN Note(st2, "not found", name) ELSE st2, NULL)
        ELSE IF ~FileExists(location.val)
             THEN Ret(Note(st2, "failed to open", location.val), NULL)
        ELSE LoadPackage(st2, name, location.val, isfile)

\* mutant: the probe for the uninstalled variant warns and tries the legacy
\* fallback like a request of the user
internal_get_package_LoudProbe(st, name, warn, check_compat) ==
    IF name \in DOMAIN st.packages THEN Ret(st, st.packages[name])
    ELSE IF /\ ~ends_in_dotpc(name)
            /\ ~disable_uninstalled
            /\ ~name_ends_in_uninstalled(name)
         THEN CHOOSE r \in {AfterProbe(un, name, warn, check_compat) :
                    un \in {internal_get_package(st, name \o <<"-">> \o UNINSTALLED,
                                                 TRUE, TRUE)}} : TRUE
         ELSE AfterProbe(Ret(st, NULL), name, warn, check_compat)

\* pkg.c:164-268
internal_get_package(st, name, warn, check_compat) ==
    IF name \in DOMAIN st.packages THEN Ret(st, st.packages[name])
    ELSE IF /\ ~ends_in_dotpc(name)
            /\ ~disable_uninstalled
            /\ ~name_ends_in_uninstalled(name)
         THEN CHOOSE r \in {AfterProbe(un, name, warn, check_compat) :
                    un \in {internal_get_package(st, name \o <<"-">> \o UNINSTALLED,
                                                 FALSE, FALSE)}} : TRUE
         ELSE AfterProbe(Ret(st, NULL), name, warn, check_compat)

get_package_in(st, name) == internal_get_package(st, name, TRUE, TRUE)

\* what ResolveRequires does with one resolved entry
Resolved(got, p, ver) ==
    IF got.st.fatal # "" THEN got.st
    ELSE IF got.ret = NULL THEN [got.st EXCEPT !.fatal = "requirement not found"]
    ELSE [got.st EXCEPT !.heap =
            [got.st.heap EXCEPT ![p].requires = Append(@, got.ret),
                                ![p].required_versions = MapPut(@, ver.name, ver)]]

\* Each requires entry is resolved through get_package, in order; the
\* package found is appended to requires and the entry indexed under its
\* name in required_versions.  A requirement that is not found is fatal.
ResolveRequires(st, p, entries) ==
    IF entries = <<>> \/ st.fatal # "" THEN st
    ELSE CHOOSE r \in {ResolveRequires(Resolved(got, p, Head(entries)), p, Tail(entries)) :
                        got \in {get_package_in(st, Head(entries).name)}} : TRUE

----------------------------------------------------------------------------
(* Specification of the comparator: two version strings are drawn, then    *)
(* compared in both orders, then tested under every operator.              *)

MaxVerLen == 3
VerChars == {"0", "1", "a", "."}

RECURSIVE StringsUpTo(_, _)
StringsUpTo(chars, n) ==
    IF n = 0 THEN {<<>>}
    ELSE LET shorter == StringsUpTo(chars, n - 1)
         IN  shorter \cup {<<c>> \o s : c \in chars, s \in {t \in shorter : Len(t) = n - 1}}

VerStrings == StringsUpTo(VerChars, MaxVerLen)

VerInit ==
    /\ RegIdle
    /\ ParseIdle
    /\ heap = <<>>
    /\ mcall = NoCall /\ mdups = <<>> /\ mlist = <<>> /\ mout = <<>>
    /\ va \in VerStrings
    /\ vb \in VerStrings
    /\ vpc = "start"
    /\ vcmp = NoCmp
    /\ vtest = NoTest

CompareVersions ==
    /\ vpc = "start"
    /\ vcmp' = [ab |-> rpmvercmp_trace(va, vb), ba |-> rpmvercmp_trace(vb, va)]
    /\ vpc' = "compared"
    /\ UNCHANGED <<va, vb, vtest, heap, mergeVars, regVars, parseVars>>

VersionTest ==
    /\ vpc = "compared"
    /\ vtest' = [op \in Comparisons |-> version_test(op, va, vb)]
    /\ vpc' = "tested"
    /\ UNCHANGED <<va, vb, vcmp, heap, mergeVars, regVars, parseVars>>

VerNext == CompareVersions \/ VersionTest

SpecVer == VerInit /\ [][VerNext]_vars

----------------------------------------------------------------------------
(* Specification of the registry: the front-end sets the two options and   *)
(* the search path, package_init scans, and packages are then asked for by *)
(* name or by file until the process exits.                                *)

MaxDirs == 2
MaxHeap == 4

QueryNames ==
    {KeyA, KeyB, KeyD, KeyE, KeyF, KeyZ, KeyBUn,
     <<"p", "/", "a">> \o DOTPC, <<"q", "/", "b">> \o DOTPC, <<"e">> \o DOTPC}

Init ==
    /\ va = <<>> /\ vb = <<>> /\ vpc = "off" /\ vcmp = NoCmp /\ vtest = NoTest
    /\ ParseIdle
    /\ mcall = NoCall /\ mdups = <<>> /\ mlist = <<>> /\ mout = <<>>
    /\ heap = <<>>
    /\ search_dirs = <<>> /\ given = <<>> /\ initted = FALSE
    /\ locations = EmptyMap /\ packages = EmptyMap /\ globals = EmptyMap
    /\ freed = {}
    /\ disable_uninstalled \in BOOLEAN
    /\ define_prefix = FALSE
    /\ parse_strict \in BOOLEAN
    /\ fatal = "" /\ gcall = NoGet /\ diag = {}
    /\ stored = {} /\ firstRet = EmptyMap

\* add_search_dir, pkg.c:33-37
add_search_dir(path) ==
    /\ fatal = "" /\ ~initted
    /\ Len(search_dirs) < MaxDirs
    /\ search_dirs' = <<path>> \o search_dirs
    /\ given' = Append(given, path)
    /\ UNCHANGED <<verVars, parseVars, heap, mergeVars, initted, locations, packages, globals, freed,
                   disable_uninstalled, define_prefix, parse_strict, fatal, gcall, diag, stored,
                   firstRet>>

\* package_init, pkg.c:132-147
package_init ==
    /\ fatal = "" /\ ~initted
    /\ initted' = TRUE
    /\ packages' = EmptyMap
    /\ locations' = scan_dir(ScanAll(EmptyMap, search_dirs), PKGLIBDIR)
    /\ UNCHANGED <<verVars, parseVars, heap, mergeVars, search_dirs, globals, freed, disable_uninstalled, define_prefix,
                   parse_strict, fatal, gcall, diag, given, stored, firstRet>>

\* get_package, pkg.c:270-274
get_package(name) ==
    /\ fatal = "" /\ initted
    /\ Len(heap) < MaxHeap
    /\ \E got \in {get_package_in(State(packages, heap, "", {}, stored), name)} :
           /\ packages' = got.st.packages
           /\ heap' = got.st.heap
           /\ fatal' = got.st.fatal
           /\ diag' = got.st.diag
           /\ stored' = got.st.stored
           /\ gcall' = [name |-> name, ret |-> got.ret,
                        cached |-> name \in DOMAIN packages, called |-> TRUE]
           /\ firstRet' = IF got.ret # NULL /\ name \notin DOMAIN firstRet
                          THEN MapPut(firstRet, name, got.ret) ELSE firstRet
    /\ UNCHANGED <<verVars, parseVars, mergeVars, search_dirs, initted, locations, globals, freed,
                   disable_uninstalled, define_prefix, parse_strict, given>>

Next ==
    \/ \E path \in SearchableDirs : add_search_dir(path)
    \/ package_init
    \/ \E name \in QueryNames : get_package(name)

Spec == Init /\ [][Next]_vars

----------------------------------------------------------------------------
(* Claims about the registry and the verifier, checked under Spec.         *)

Objects == {x[2] : x \in stored}

Present(pkg) ==
    pkg.key.some /\ pkg.name.some /\ pkg.version.some /\ pkg.description.some

NonEmpty(pkg) ==
    /\ Present(pkg)
    /\ pkg.key.val # <<>> /\ pkg.name.val # <<>>
    /\ pkg.version.val # <<>> /\ pkg.description.val # <<>>

\* C1 (as stated): every get_package(k) that returns a package returns the
\* object the first such call returned, and no key of packages is ever
\* mapped to two different Package objects.
C1_IdempotentLoading ==
    /\ (gcall.called /\ gcall.ret # NULL) => gcall.ret = firstRet[gcall.name]
    /\ \A x, y \in stored : x[1] = y[1] => x[2] = y[2]

\* the directories in the order they were given, the compiled-in one last
GivenOrder == given \o <<PKGLIBDIR>>

HasKey(dirname, k) == DirExists(dirname) /\ (k \o DOTPC) \in Readdir(dirname)

\* C2 (as stated): after package_init, locations[K] is the path of K.pc in
\* the earliest-given directory that has it, the compiled-in directory being
\* consulted last.
C2_FirstWins ==
    initted =>
      \A k \in DOMAIN locations :
        \E i \in 1..Len(GivenOrder) :
          /\ HasKey(GivenOrder[i], k)
          /\ \A j \in 1..(i - 1) : ~HasKey(GivenOrder[j], k)
          /\ locations[k] = OpenDir(GivenOrder[i]) \o <<"/">> \o k \o DOTPC

\* P declared a constraint on the key of R, one of its requires, and R's
\* version does not pass it
Unsatisfied(p) ==
    \E i \in 1..Len(heap[p].requires) :
        LET req == heap[heap[p].requires[i]]
        IN  /\ req.key.val \in DOMAIN heap[p].required_versions
            /\ LET ver == heap[p].required_versions[req.key.val]
               IN  ~version_test(ver.comparison, req.version.val, ver.version.val)

\* C3: a package one of whose requires fails the constraint declared on its
\* key, tested with the required package's version as the left operand, ends
\* the process in the fatal state, in strict and in lax mode, and is never
\* inserted: every package in packages has its declared constraints satisfied.
C3_ConstraintsEnforced ==
    /\ \A p \in 1..Len(heap) : Unsatisfied(p) => (fatal = "requires" /\ p \notin Objects)
    /\ \A k \in DOMAIN packages : ~Unsatisfied(packages[k])
    /\ fatal = "requires" => \E p \in 1..Len(heap) : Unsatisfied(p)

C3_Witness ==
    /\ ~parse_strict
    /\ fatal = "requires"
    /\ \E p \in 1..Len(heap) : Unsatisfied(p) /\ heap[p].key.val = KeyA
    /\ KeyB \in DOMAIN packages

\* there are a package of P's requires closure and an entry of P's conflicts
\* closure that names its key and accepts its version
NamedConflict(p) ==
    LET requires  == recursive_fill_list(heap, p, "get_requires", <<>>)
        conflicts == recursive_fill_list(heap, p, "get_conflicts", <<>>)
    IN  \E i \in 1..Len(requires), j \in 1..Len(conflicts) :
            /\ conflicts[j].name = heap[requires[i]].key.val
            /\ version_test(conflicts[j].comparison, heap[requires[i]].version.val,
                            conflicts[j].version.val)

\* C4 (as stated): verify_package(P) fails on a conflict exactly when an
\* entry of P's conflicts closure names the key of a package of P's requires
\* closure and accepts its version; an entry naming a package that is not
\* in the requires closure never makes it fail.
C4_ConflictDetection ==
    /\ fatal = "conflict" =>
          \E p \in 1..Len(heap) : p \notin Objects /\ NamedConflict(p)
    /\ \A p \in Objects : ~NamedConflict(p)

\* C5 (as stated): every package returned or stored has non-empty key, name,
\* version and description, and a descriptor with one of Name, Version and
\* Description absent or empty is fatal and never inserted.
C5_NonEmptyFields ==
    /\ \A p \in Objects : NonEmpty(heap[p])
    /\ gcall.ret # NULL => NonEmpty(heap[gcall.ret])
    /\ \A p \in 1..Len(heap) : ~NonEmpty(heap[p]) => (fatal # "" /\ p \notin Objects)

\* C5 (amended): every package returned or stored has its key, name, version
\* and description present, each possibly the empty string; a descriptor in
\* which Name, Version or Description is absent is fatal in strict and in lax
\* mode and is never inserted.
C5_PresentFields ==
    /\ \A p \in Objects : Present(heap[p])
    /\ gcall.ret # NULL => Present(heap[gcall.ret])
    /\ \A p \in 1..Len(heap) : ~Present(heap[p]) => (fatal # "" /\ p \notin Objects)

C5_Witness ==
    /\ ~parse_strict
    /\ fatal = "no Name"
    /\ \E p \in 1..Len(heap) : ~heap[p].name.some /\ heap[p].key = Some(KeyF)
    /\ \E p \in Objects : heap[p].name = Some(<<>>)

Uninstalled(n) == n \o <<"-">> \o UNINSTALLED

\* the last call was for a name the uninstalled preference applies to
PlainCall ==
    /\ gcall.called /\ ~gcall.cached
    /\ ~ends_in_dotpc(gcall.name)
    /\ ~name_ends_in_uninstalled(gcall.name)

\* C6: for a name n that is not cached and ends neither in .pc nor in
\* uninstalled, get_package(n) returns n-uninstalled when the preference is
\* enabled and the variant is loaded, and otherwise the package of
\* locations[n]; the probe emits no not-found diagnostic and does not try the
\* legacy fallback; with disable_uninstalled nothing keyed n-uninstalled is
\* returned.
C6_UninstalledPreference ==
    (PlainCall /\ fatal = "") =>
      LET n  == gcall.name
          un == Uninstalled(n)
      IN  /\ (~disable_uninstalled /\ un \in DOMAIN locations)
                => (gcall.ret # NULL /\ heap[gcall.ret].key = Some(un))
          /\ (~disable_uninstalled /\ un \in DOMAIN packages)
                => gcall.ret = packages[un]
          /\ (disable_uninstalled \/ un \notin DOMAIN packages) =>
                IF n \in DOMAIN locations
                THEN /\ gcall.ret # NULL
                     /\ heap[gcall.ret].key = Some(n)
                     /\ heap[gcall.ret].pcfiledir = Some(g_dirname(locations[n]))
                ELSE gcall.ret = NULL
          /\ \A e \in diag : e.name # un
          /\ disable_uninstalled =>
                (gcall.ret = NULL \/ heap[gcall.ret].key # Some(un))

C6_Witness ==
    /\ PlainCall /\ fatal = ""
    /\ gcall.name = KeyB
    /\ ~disable_uninstalled
    /\ gcall.ret # NULL
    /\ heap[gcall.ret].key = Some(KeyBUn)
    /\ heap[gcall.ret].uninstalled

----------------------------------------------------------------------------
(* Claims about the comparator, checked under SpecVer.                     *)

\* C7 (as stated): for all version strings a and b the signs of
\* compare_versions(a,b) and compare_versions(b,a) are opposite, and
\* compare_versions(a,a) = 0, also where a numeric segment meets an
\* alphabetic one.
C7_Antisymmetric ==
    vpc # "start" =>
        /\ Sign(vcmp.ab.rc) = 0 - Sign(vcmp.ba.rc)
        /\ (va = vb => vcmp.ab.rc = 0)

\* C7 (amended): compare_versions(a,a) = 0, and for all a, b either neither
\* order is decided by the type-mismatch tiebreak and the signs are
\* opposite, or both orders are decided by the tiebreak and both return -1.
C7_AntisymmetricUnlessTiebreak ==
    vpc # "start" =>
        /\ (va = vb => vcmp.ab.rc = 0 /\ vcmp.ba.rc = 0)
        /\ \/ /\ vcmp.ab.how # "mismatch"
              /\ vcmp.ba.how # "mismatch"
              /\ Sign(vcmp.ab.rc) = 0 - Sign(vcmp.ba.rc)
           \/ /\ vcmp.ab.how = "mismatch"
              /\ vcmp.ba.how = "mismatch"
              /\ vcmp.ab.rc = -1
              /\ vcmp.ba.rc = -1

\* a numeric segment of one string has met an alphabetic segment of the other
C7_Witness ==
    /\ vpc = "compared"
    /\ va = <<"1", ".", "0">>
    /\ vb = <<"1", ".", "a">>
    /\ vcmp.ab.how = "mismatch"
    /\ vcmp.ba.how = "mismatch"

\* C8: version_test(op, a, b) is the relation op between compare_versions(a,b)
\* and 0 for the six operators and TRUE for ALWAYS_MATCH; NOT_EQUAL is the
\* negation of EQUAL and exactly one of LESS_THAN, EQUAL, GREATER_THAN holds.
C8_OperatorRoundTrip ==
    vpc = "tested" =>
        LET c == vcmp.ab.rc IN
        /\ vtest["LESS_THAN"]          <=> (Sign(c) = -1)
        /\ vtest["LESS_THAN_EQUAL"]    <=> (Sign(c) \in {-1, 0})
        /\ vtest["GREATER_THAN"]       <=> (Sign(c) = 1)
        /\ vtest["GREATER_THAN_EQUAL"] <=> (Sign(c) \in {0, 1})
        /\ vtest["EQUAL"]              <=> (Sign(c) = 0)
        /\ vtest["NOT_EQUAL"]          <=> (Sign(c) # 0)
        /\ vtest["ALWAYS_MATCH"]
        /\ vtest["NOT_EQUAL"] = ~vtest["EQUAL"]
        /\ Cardinality({op \in {"LESS_THAN", "EQUAL", "GREATER_THAN"} : vtest[op]}) = 1

\* two different spellings of one version have been tested equal
C8_Witness ==
    /\ vpc = "tested"
    /\ va = <<"1">>
    /\ vb = <<"0", "1">>
    /\ vcmp.ab.how = "end"
    /\ vtest["EQUAL"]
    /\ vtest["LESS_THAN_EQUAL"]
    /\ ~vtest["LESS_THAN"]

\* C9: for a # b, once skipping the non-alphanumeric bytes leaves either
\* string empty the result is decided only by what remains: 0 if both are
\* exhausted, 1 if only the left has characters left, -1 if only the right.
C9_ExhaustionRule ==
    vpc # "start" /\ va # vb =>
        LET r == vcmp.ab IN
        (r.how # "none" /\ (r.one = <<>> \/ r.two = <<>>)) =>
            r.rc = (IF r.one = <<>> /\ r.two = <<>> THEN 0
                    ELSE IF r.two = <<>> THEN 1 ELSE -1)

----------------------------------------------------------------------------
(* Specification of the merger: two loaded packages, the first of which    *)
(* may require the second, carry flag lists drawn from small sets; the     *)
(* per-package and multi-package accessors are then called in any order.   *)

MaxFlags == 2
MaxReqFlags == 2
Letters == {"A", "B"}
ReqLetters == {"A", "B"}

lFlag == [A |-> "-lA", B |-> "-lB", C |-> "-lC"]
LFlag == [A |-> "-LA", B |-> "-LB", C |-> "-LC"]
IFlag == [A |-> "-IA", B |-> "-IB", C |-> "-IC"]

Map(f, list) == [i \in 1..Len(list) |-> f[list[i]]]

LoadedPackage(k, letters, reqs) ==
    [NewPackage EXCEPT !.key = Some(k), !.name = Some(k),
                       !.version = Some(<<"1">>), !.description = Some(k),
                       !.requires = reqs,
                       !.l_libs = Map(lFlag, letters),
                       !.L_libs = Map(LFlag, letters),
                       !.I_cflags = Map(IFlag, letters)]

MergeInit ==
    /\ RegIdle
    /\ va = <<>> /\ vb = <<>> /\ vpc = "off" /\ vcmp = NoCmp /\ vtest = NoTest
    /\ ParseIdle
    /\ \E la \in StringsUpTo(Letters, MaxFlags),
          lb \in StringsUpTo(ReqLetters, MaxReqFlags),
          reqs \in {<<>>, <<2>>} :
            heap = <<LoadedPackage(<<"a">>, la, reqs), LoadedPackage(<<"b">>, lb, <<>>)>>
    /\ mcall = NoCall /\ mdups = <<>> /\ mlist = <<>> /\ mout = <<>>

\* package_get_l_libs / package_get_L_libs / package_get_I_cflags,
\* pkg.c:636-659 and 737-744: computed once, then served from the cache
PackageGet(fn, pkg, cache, m) ==
    /\ mcall' = [fn |-> fn, pkgs |-> <<pkg>>, cached |-> heap[pkg][cache].some]
    /\ IF heap[pkg][cache].some
       THEN /\ mout' = heap[pkg][cache].val
            /\ mdups' = <<>>
            /\ mlist' = <<>>
            /\ UNCHANGED heap
       ELSE /\ heap' = [heap EXCEPT ![pkg][cache] = Some(m.retval)]
            /\ mdups' = m.dups_list
            /\ mlist' = m.list
            /\ mout' = m.retval
    /\ UNCHANGED <<verVars, regVars, parseVars>>

package_get_l_libs(pkg) ==
    PackageGet("package_get_l_libs", pkg, "l_libs_merged",
               get_merged_from_back(heap, pkg, "get_l_libs"))

package_get_L_libs(pkg) ==
    PackageGet("package_get_L_libs", pkg, "L_libs_merged",
               get_merged(heap, pkg, "get_L_libs"))

package_get_I_cflags(pkg) ==
    PackageGet("package_get_I_cflags", pkg, "I_cflags_merged",
               get_merged(heap, pkg, "get_I_cflags"))

\* packages_get_l_libs / packages_get_L_libs / packages_get_I_cflags,
\* pkg.c:645-665 and 746-750
PackagesGet(fn, pkgs, m) ==
    /\ mcall' = [fn |-> fn, pkgs |-> pkgs, cached |-> FALSE]
    /\ mdups' = m.dups_list
    /\ mlist' = m.list
    /\ mout' = m.retval
    /\ UNCHANGED <<heap, verVars, regVars, parseVars>>

packages_get_l_libs(pkgs) ==
    PackagesGet("packages_get_l_libs", pkgs,
                get_multi_merged_from_back(heap, pkgs, "get_l_libs"))

packages_get_L_libs(pkgs) ==
    PackagesGet("packages_get_L_libs", pkgs,
                get_multi_merged(heap, pkgs, "get_L_libs"))

packages_get_I_cflags(pkgs) ==
    PackagesGet("packages_get_I_cflags", pkgs,
                get_multi_merged(heap, pkgs, "get_I_cflags"))

\* packages_get_other_libs / packages_get_other_cflags, pkg.c:673-700 and
\* 758-785: the field of every package that has one, each followed by a blank
RECURSIVE packages_get_other(_, _, _)
packages_get_other(h, pkgs, field) ==
    IF pkgs = <<>> THEN <<>>
    ELSE (IF h[Head(pkgs)][field].some THEN <<h[Head(pkgs)][field].val, " ">> ELSE <<>>)
         \o packages_get_other(h, Tail(pkgs), field)

\* packages_get_all_libs, pkg.c:702-735: other_libs, L_libs and l_libs appended
\* in that order
packages_get_all_libs(pkgs) ==
    LET other_libs == packages_get_other(heap, pkgs, "other_libs")
        L_libs     == get_multi_merged(heap, pkgs, "get_L_libs")
        l_libs     == get_multi_merged_from_back(heap, pkgs, "get_l_libs")
    IN  PackagesGet("packages_get_all_libs", pkgs,
                    [dups_list |-> L_libs.dups_list \o l_libs.dups_list,
                     list      |-> L_libs.list \o l_libs.list,
                     retval    |-> other_libs \o L_libs.retval \o l_libs.retval])

\* packages_get_all_cflags, pkg.c:795-823
packages_get_all_cflags(pkgs) ==
    LET other_cflags == packages_get_other(heap, pkgs, "other_cflags")
        I_cflags     == get_multi_merged(heap, pkgs, "get_I_cflags")
    IN  PackagesGet("packages_get_all_cflags", pkgs,
                    [dups_list |-> I_cflags.dups_list,
                     list      |-> I_cflags.list,
                     retval    |-> other_cflags \o I_cflags.retval])

MergeRoots == {1}
MergeQueries == {<<>>, <<1>>, <<1, 2>>, <<2, 1>>}

MergeNext ==
    \/ \E pkg \in MergeRoots : package_get_l_libs(pkg)
    \/ \E pkg \in MergeRoots : package_get_L_libs(pkg)
    \/ \E pkg \in MergeRoots : package_get_I_cflags(pkg)
    \/ \E pkgs \in MergeQueries : packages_get_l_libs(pkgs)
    \/ \E pkgs \in MergeQueries : packages_get_L_libs(pkgs)
    \/ \E pkgs \in MergeQueries : packages_get_I_cflags(pkgs)
    \/ \E pkgs \in MergeQueries : packages_get_all_libs(pkgs)
    \/ \E pkgs \in MergeQueries : packages_get_all_cflags(pkgs)

SpecMerge == MergeInit /\ [][MergeNext]_vars

----------------------------------------------------------------------------
(* Claims about the merger, checked under SpecMerge.                       *)

FirstIndex(list, x) == CHOOSE i \in 1..Len(list) : list[i] = x /\ \A j \in 1..(i - 1) : list[j] # x
LastIndex(list, x) == CHOOSE i \in 1..Len(list) : list[i] = x /\ \A j \in (i + 1)..Len(list) : list[j] # x

\* every distinct string of dups exactly once, and nothing else
OncEach(dups, out) ==
    /\ \A i \in 1..Len(dups) : Cardinality({j \in 1..Len(out) : out[j] = dups[i]}) = 1
    /\ \A j \in 1..Len(out) : Contains(dups, out[j])

\* the flags of a returned string, blanks left out
FlagsOf(str) == SelectSeq(str, LAMBDA x : x # " ")

ForwardCalls == {"package_get_L_libs", "package_get_I_cflags",
                 "packages_get_L_libs", "packages_get_I_cflags"}
BackwardCalls == {"package_get_l_libs", "packages_get_l_libs"}

\* C10: the forward dedup used for -I and -L flags outputs each distinct
\* string exactly once in the order of first occurrence, the backward dedup
\* used for -l flags each distinct string exactly once in the order of last
\* occurrence; [-lA,-lB,-lA] gives -lB -lA, [-IA,-IB,-IA] gives -IA -IB, and
\* a: -lA requiring b: -lB -lA gives -lB -lA.
C10_DedupDisciplines ==
    /\ (mcall.fn \in ForwardCalls /\ ~mcall.cached) =>
        /\ OncEach(mdups, mlist)
        /\ \A i, j \in 1..Len(mlist) :
              i < j => FirstIndex(mdups, mlist[i]) < FirstIndex(mdups, mlist[j])
        /\ FlagsOf(mout) = mlist
        /\ mdups = <<"-IA", "-IB", "-IA">> => FlagsOf(mout) = <<"-IA", "-IB">>
    /\ (mcall.fn \in BackwardCalls /\ ~mcall.cached) =>
        /\ OncEach(mdups, mlist)
        /\ \A i, j \in 1..Len(mlist) :
              i < j => LastIndex(mdups, mlist[i]) < LastIndex(mdups, mlist[j])
        /\ FlagsOf(mout) = mlist
        /\ mdups = <<"-lA", "-lB", "-lA">> => FlagsOf(mout) = <<"-lB", "-lA">>
        /\ ( /\ mcall.pkgs = <<1>>
             /\ heap[1].requires = <<2>>
             /\ heap[1].l_libs = <<"-lA">>
             /\ heap[2].l_libs = <<"-lB", "-lA">> ) => FlagsOf(mout) = <<"-lB", "-lA">>

\* a requiring b, a: -lA, b: -lB -lA, asked for its -l flags
C10_Witness ==
    /\ mcall = [fn |-> "package_get_l_libs", pkgs |-> <<1>>, cached |-> FALSE]
    /\ heap[1].requires = <<2>>
    /\ heap[1].l_libs = <<"-lA">>
    /\ heap[2].l_libs = <<"-lB", "-lA">>
    /\ mdups = <<"-lA", "-lB", "-lA">>
    /\ FlagsOf(mout) = <<"-lB", "-lA">>

\* the strings of list joined by exactly one blank, none before and none after
RECURSIVE JoinedBySpace(_)
JoinedBySpace(list) ==
    IF list = <<>> THEN <<>>
    ELSE IF Len(list) = 1 THEN list
    ELSE <<Head(list), " ">> \o JoinedBySpace(Tail(list))

\* C11 (as stated): the string returned by the per-package and multi-package
\* accessors is the surviving flags joined by exactly one space, with no
\* leading, doubled or trailing space, and is empty for an empty list.
C11_FinalEmission ==
    (mcall.fn # "none" /\ ~mcall.cached) => mout = JoinedBySpace(mlist)

----------------------------------------------------------------------------
(* Specification of the transitive walk: three packages a, b and c, each   *)
(* with one flag of every kind, over every requires graph in which a may   *)
(* require b and c and b may require c; the accessors are then called for  *)
(* one package or for a list of packages.                                  *)

MaxRequires == 2
MaxQuery == 2

WalkPackage(k, reqs) ==
    [NewPackage EXCEPT !.key = Some(<<k>>), !.name = Some(<<k>>),
                       !.version = Some(<<"1">>), !.description = Some(<<k>>),
                       !.requires = reqs,
                       !.l_libs = <<"-l" \o k>>,
                       !.L_libs = <<"-L" \o k>>,
                       !.I_cflags = <<"-I" \o k>>]

WalkInit ==
    /\ RegIdle
    /\ va = <<>> /\ vb = <<>> /\ vpc = "off" /\ vcmp = NoCmp /\ vtest = NoTest
    /\ ParseIdle
    /\ \E ra \in StringsUpTo({2, 3}, MaxRequires),
          rb \in StringsUpTo({3}, MaxRequires - 1) :
            heap = <<WalkPackage("a", ra), WalkPackage("b", rb), WalkPackage("c", <<>>)>>
    /\ mcall = NoCall /\ mdups = <<>> /\ mlist = <<>> /\ mout = <<>>

WalkQueries == StringsUpTo({1, 2, 3}, MaxQuery)

WalkNext ==
    \/ \E pkg \in MergeRoots : package_get_l_libs(pkg)
    \/ \E pkg \in MergeRoots : package_get_I_cflags(pkg)
    \/ \E pkgs \in WalkQueries : packages_get_l_libs(pkgs)
    \/ \E pkgs \in WalkQueries : packages_get_L_libs(pkgs)

SpecWalk == WalkInit /\ [][WalkNext]_vars

----------------------------------------------------------------------------
(* Claims about the walk, checked under SpecWalk.                          *)

\* the paths from pkg along requires, each the sequence of the positions
\* taken in the successive requires lists
RECURSIVE PathsFrom(_)
PathsFrom(pkg) ==
    {<<>>} \cup UNION {{<<i>> \o q : q \in PathsFrom(heap[pkg].requires[i])} :
                          i \in 1..Len(heap[pkg].requires)}

RECURSIVE PathEnd(_, _)
PathEnd(pkg, path) ==
    IF path = <<>> THEN pkg ELSE PathEnd(heap[pkg].requires[Head(path)], Tail(path))

\* depth-first pre-order: a path comes before its extensions, and otherwise
\* the path that goes left at the first difference comes first
PreOrderBefore(x, y) ==
    \/ Len(x) < Len(y) /\ SubSeq(y, 1, Len(x)) = x
    \/ \E i \in 1..Len(x) :
          /\ i <= Len(y)
          /\ SubSeq(x, 1, i - 1) = SubSeq(y, 1, i - 1)
          /\ x[i] < y[i]

\* the packages met from pkg, in pre-order, once per path
PreOrderWalk(pkg) ==
    LET paths == PathsFrom(pkg)
        rank(x) == Cardinality({y \in paths : PreOrderBefore(y, x)}) + 1
    IN  [i \in 1..Cardinality(paths) |->
            PathEnd(pkg, CHOOSE x \in paths : rank(x) = i)]

RECURSIVE ListsOf(_, _)
ListsOf(func, seq) ==
    IF seq = <<>> THEN <<>>
    ELSE GetList(func, heap[Head(seq)]) \o ListsOf(func, Tail(seq))

RECURSIVE WalksOf(_)
WalksOf(pkgs) ==
    IF pkgs = <<>> THEN <<>> ELSE PreOrderWalk(Head(pkgs)) \o WalksOf(Tail(pkgs))

SelectorOf(fn) ==
    CASE fn \in {"package_get_l_libs", "packages_get_l_libs"} -> "get_l_libs"
      [] fn \in {"package_get_L_libs", "packages_get_L_libs"} -> "get_L_libs"
      [] OTHER -> "get_I_cflags"

\* C12: the list recursive_fill_list builds holds the selector lists of the
\* packages in depth-first pre-order over requires, left to right, a package
\* reachable along several paths once per path; for several packages the
\* walks are concatenated in input order before the dedup, and the output is
\* the dedup of that walk.
C12_WalkOrder ==
    (mcall.fn # "none" /\ ~mcall.cached) =>
        LET walk == ListsOf(SelectorOf(mcall.fn), WalksOf(mcall.pkgs))
        IN  /\ mdups = walk
            /\ mlist = IF mcall.fn \in BackwardCalls
                       THEN string_list_strip_duplicates_from_back(walk)
                       ELSE string_list_strip_duplicates(walk)
            /\ FlagsOf(mout) = mlist

\* a requires b and c, b requires c: c is met on two paths, and the walk of
\* a is followed by that of c
C12_Witness ==
    /\ heap[1].requires = <<2, 3>> /\ heap[2].requires = <<3>>
    /\ mcall = [fn |-> "packages_get_L_libs", pkgs |-> <<1, 3>>, cached |-> FALSE]
    /\ mdups = <<"-La", "-Lb", "-Lc", "-Lc", "-Lc">>
    /\ mlist = <<"-La", "-Lb", "-Lc">>

----------------------------------------------------------------------------
(* The line reader, parse.c:56-139.  A stream is the sequence of its bytes *)
(* and a position in it; getc at the end of the stream returns EOF and     *)
(* ungetc (EOF) does nothing.                                              *)

\* int next_c = getc (stream); if (!(... pair ...)) ungetc (next_c, stream);
\* pos is the position after c was read, the result the position afterwards
AfterTerminator(s, pos, c) ==
    IF pos < Len(s) /\ ( \/ c = "\r" /\ s[pos + 1] = "\n"
                         \/ c = "\n" /\ s[pos + 1] = "\r" )
    THEN pos + 1 ELSE pos

\* mutant: a backslash starts an escape inside a comment too
StartsQuote_InComment(comment) == TRUE

\* case '\\': if (!comment) quoted = TRUE;
StartsQuote(comment) == ~comment

\* the loop of read_one_line; the result is the buffer, the position reached
\* and the return value
RECURSIVE ReadLoop(_, _, _, _, _, _)
ReadLoop(s, pos, str, quoted, comment, n_read) ==
    IF pos >= Len(s)
    THEN [str |-> IF quoted THEN Append(str, BSL) ELSE str,
          pos |-> pos, ret |-> n_read > 0]
    ELSE
      LET c == s[pos + 1]
          n == n_read + 1
      IN  IF quoted
          THEN CASE c = "#" ->
                      ReadLoop(s, pos + 1, Append(str, "#"), FALSE, comment, n)
                 [] c \in {"\r", "\n"} ->
                      ReadLoop(s, AfterTerminator(s, pos + 1, c), str, FALSE, comment, n)
                 [] OTHER ->
                      ReadLoop(s, pos + 1, str \o <<BSL, c>>, FALSE, comment, n)
          ELSE CASE c = "#" ->
                      ReadLoop(s, pos + 1, str, FALSE, TRUE, n)
                 [] c = BSL ->
                      ReadLoop(s, pos + 1, str, StartsQuote(comment), comment, n)
                 [] c = "\n" ->
                      [str |-> str, pos |-> AfterTerminator(s, pos + 1, c), ret |-> TRUE]
                 [] OTHER ->
                      ReadLoop(s, pos + 1, IF comment THEN str ELSE Append(str, c),
                               FALSE, comment, n)

----------------------------------------------------------------------------
(* Specification of the line reader: a stream of a few bytes is read line  *)
(* by line until read_one_line returns FALSE.                              *)

MaxStreamLen == 4
Bytes == {"a", "#", BSL, "\n", "\r"}

LineInit ==
    /\ RegIdle /\ VerIdle /\ MergeIdle
    /\ stream \in StringsUpTo(Bytes, MaxStreamLen)
    /\ rpos = 0 /\ rlines = <<>>
    /\ pin = <<>> /\ pout = <<>> /\ pstep = "off"

\* while (read_one_line (f, str)): one call; from and to are the positions
\* before and after it
read_one_line ==
    /\ IF rlines = <<>> THEN TRUE ELSE rlines[Len(rlines)].ret
    /\ LET r == ReadLoop(stream, rpos, <<>>, FALSE, FALSE, 0)
       IN  /\ rpos' = r.pos
           /\ rlines' = Append(rlines, [str |-> r.str, ret |-> r.ret,
                                        from |-> rpos, to |-> r.pos])
    /\ UNCHANGED <<stream, pin, pout, pstep, verVars, heap, mergeVars, regVars>>

LineNext == read_one_line

SpecLine == LineInit /\ [][LineNext]_vars

----------------------------------------------------------------------------
(* Claims about the line reader, checked under SpecLine.                   *)

IsTerminator(c) == c \in {"\n", "\r"}

\* the length of the terminator that starts at s[i]: \r\n and \n\r are one
TerminatorLen(s, i) ==
    IF i < Len(s) /\ IsTerminator(s[i + 1]) /\ s[i + 1] # s[i] THEN 2 ELSE 1

\* index of the first terminator byte of s, 0 when there is none
FirstTerminator(s) ==
    IF \E i \in 1..Len(s) : IsTerminator(s[i])
    THEN CHOOSE i \in 1..Len(s) :
            IsTerminator(s[i]) /\ \A j \in 1..(i - 1) : ~IsTerminator(s[j])
    ELSE 0

\* the bytes one call consumed
Consumed(r) == SubSeq(stream, r.from + 1, r.to)

\* seg[i] is a backslash that escapes the byte after it: one that is not
\* itself escaped (seg starts a logical line and i is outside a comment)
RECURSIVE Escaping(_, _)
Escaping(seg, i) == seg[i] = BSL /\ (i = 1 \/ ~Escaping(seg, i - 1))

IsCommentStart(seg, i) == seg[i] = "#" /\ (i = 1 \/ ~Escaping(seg, i - 1))

\* index of the '#' that starts the comment of the line, 0 when there is none
CommentStart(seg) ==
    IF \E i \in 1..Len(seg) : IsCommentStart(seg, i)
    THEN CHOOSE i \in 1..Len(seg) :
            IsCommentStart(seg, i) /\ \A j \in 1..(i - 1) : ~IsCommentStart(seg, j)
    ELSE 0

InComment(seg, j) == CommentStart(seg) # 0 /\ CommentStart(seg) < j

\* what the text of a line outside its comment stands for, by the contract:
\* \# is #, an escaped terminator is nothing, any other escaped byte is kept
\* with its backslash
RECURSIVE Unescaped(_)
Unescaped(t) ==
    IF t = <<>> THEN <<>>
    ELSE IF t[1] # BSL THEN <<t[1]>> \o Unescaped(Tail(t))
    ELSE IF Len(t) = 1 THEN <<BSL>>
    ELSE IF t[2] = "#" THEN <<"#">> \o Unescaped(Drop(t, 2))
    ELSE IF IsTerminator(t[2]) THEN Unescaped(Drop(t, 1 + TerminatorLen(t, 2)))
    ELSE <<BSL, t[2]>> \o Unescaped(Drop(t, 2))

\* a stream of plain bytes with one backslash in front of a terminator is
\* read as one line without the backslash and the terminator
OneContinuation ==
    ( /\ rlines # <<>>
      /\ Cardinality({i \in 1..Len(stream) : stream[i] = BSL}) = 1
      /\ \E j \in 1..(Len(stream) - 1) :
            /\ stream[j] = BSL
            /\ IsTerminator(stream[j + 1])
            /\ \A i \in 1..Len(stream) :
                  (i < j \/ i > j + TerminatorLen(stream, j + 1)) => stream[i] = "a" )
    => rlines[1].str = SelectSeq(stream, LAMBDA c : c = "a")

\* the position after the terminator that follows the backslash seg[j] of r
AfterBackslashTerminator(r, j) == r.from + j + TerminatorLen(stream, r.from + j + 1)

JoinedAt(r, j) ==
    AfterBackslashTerminator(r, j) < r.to \/ AfterBackslashTerminator(r, j) = Len(stream)

\* C13 (as stated): a physical line whose last byte before its terminator is
\* a backslash is joined with the next one, wherever the backslash stands,
\* after a '#' included, and neither the backslash nor the terminator is in
\* the line returned.
C13_Continuation ==
    /\ \A k \in 1..Len(rlines) :
         LET r == rlines[k]
             seg == Consumed(r)
         IN  \A j \in 1..(Len(seg) - 1) :
                (seg[j] = BSL /\ IsTerminator(seg[j + 1])) => JoinedAt(r, j)
    /\ OneContinuation

\* C13 (amended): a backslash that is outside a comment and not itself
\* escaped, in front of \n, \r, \r\n or \n\r, joins the line with the next
\* one, the backslash and the terminator being consumed and left out; a
\* backslash inside a comment or escaped by another in front of \n does not:
\* the line ends at that terminator.
C13_ContinuationOutsideComment ==
    /\ \A k \in 1..Len(rlines) :
         LET r == rlines[k]
             seg == Consumed(r)
         IN  \A j \in 1..(Len(seg) - 1) :
                (seg[j] = BSL /\ IsTerminator(seg[j + 1])) =>
                   IF ~InComment(seg, j) /\ Escaping(seg, j)
                   THEN JoinedAt(r, j)
                   ELSE seg[j + 1] = "\n" => r.to = AfterBackslashTerminator(r, j)
    /\ OneContinuation

C13_Witness ==
    /\ stream = <<"a", BSL, "\r", "\n">>
    /\ Len(rlines) = 1
    /\ rlines[1] = [str |-> <<"a">>, ret |-> TRUE, from |-> 0, to |-> 4]

\* C14 (as stated): an unescaped '#' starts a comment, every byte from it up
\* to the line terminator is dropped and the terminator is consumed, so that
\* the next call starts on the next physical line; '#' after an escaping
\* backslash is a literal '#' without the backslash and starts no comment.
C14_CommentAndEscape ==
    \A k \in 1..Len(rlines) :
       LET r == rlines[k]
           seg == Consumed(r)
           h == CommentStart(seg)
           t == FirstTerminator(Drop(seg, h))
       IN  r.ret =>
             /\ h # 0 =>
                  /\ r.str = Unescaped(Take(seg, h - 1))
                  /\ IF t = 0 THEN r.to = Len(stream)
                     ELSE r.to = r.from + h + t - 1 + TerminatorLen(stream, r.from + h + t)
             /\ (h = 0 /\ FirstTerminator(seg) = 0) => r.str = Unescaped(seg)

RECURSIVE SplitLines(_)
SplitLines(s) ==
    IF s = <<>> THEN <<>>
    ELSE LET i == FirstTerminator(s)
         IN  IF i = 0 THEN <<s>>
             ELSE <<Take(s, i - 1)>> \o SplitLines(Drop(s, i - 1 + TerminatorLen(s, i)))

\* C15 (as stated): each of \n, \r, \r\n and \n\r ends the logical line, no
\* terminator byte is in a returned line, and a two-byte form ends exactly
\* one line.
C15_LineTerminators ==
    /\ \A k \in 1..Len(rlines) :
          \A i \in 1..Len(rlines[k].str) : ~IsTerminator(rlines[k].str[i])
    /\ ( /\ rlines # <<>>
         /\ ~rlines[Len(rlines)].ret
         /\ \A i \in 1..Len(stream) : stream[i] \notin {BSL, "#"} )
       => [k \in 1..(Len(rlines) - 1) |-> rlines[k].str] = SplitLines(stream)

----------------------------------------------------------------------------
(* Specification of the substitutor: trim_and_sub is called once on a raw  *)
(* value in the scope of a package whose variable a is undefined or has    *)
(* one of a few values, one of which holds a reference of its own.         *)

MaxSubLen == 5
SubChars == {"$", "{", "}", "a"}

VarA == <<"a">>
VarB == <<"b">>

SubScopes ==
    { EmptyMap,
      VarA :> <<"x">>,
      VarA :> <<>>,
      VarA :> <<"$">>,
      (VarA :> <<"$", "{", "b", "}">>) @@ (VarB :> <<"x">>) }

\* what reading past the end of the buffer may add to the result
Junk == {<<>>, <<"?">>}

SubInit ==
    /\ VerIdle /\ MergeIdle
    /\ search_dirs = <<>> /\ given = <<>> /\ initted = FALSE
    /\ locations = EmptyMap /\ packages = EmptyMap /\ globals = EmptyMap
    /\ freed = {}
    /\ disable_uninstalled = FALSE /\ define_prefix = FALSE
    /\ parse_strict \in BOOLEAN
    /\ fatal = "" /\ gcall = NoGet /\ diag = {}
    /\ stored = {} /\ firstRet = EmptyMap
    /\ stream = <<>> /\ rpos = 0 /\ rlines = <<>>
    /\ \E str \in StringsUpTo(SubChars, MaxSubLen), scope \in SubScopes :
          pin = [str |-> str, pkg |-> [NewPackage EXCEPT !.vars = scope]]
    /\ pout = <<>>
    /\ pstep = "start"

\* one call of trim_and_sub (pkg, str, path): exit (1) for an undefined
\* variable in strict mode; after an overrun the loop goes on reading what
\* lies behind the buffer, which may end it at once, add bytes or crash
TrimAndSub ==
    /\ pstep = "start"
    /\ LET r == trim_and_sub(pin.pkg, pin.str)
       IN  \E junk \in Junk, crash \in BOOLEAN :
              /\ (~r.overrun \/ (r.undefined /\ parse_strict)) => (junk = <<>> /\ ~crash)
              /\ pout' = [str |-> r.str \o junk, undefined |-> r.undefined,
                          overrun |-> r.overrun,
                          exit |-> r.undefined /\ parse_strict,
                          crash |-> crash]
              /\ fatal' = IF r.undefined /\ parse_strict THEN "undefined variable"
                          ELSE IF crash THEN "crash" ELSE ""
    /\ pstep' = "done"
    /\ UNCHANGED <<pin, stream, rpos, rlines, verVars, heap, mergeVars,
                   search_dirs, initted, locations, packages, globals, freed,
                   disable_uninstalled, define_prefix, parse_strict, gcall, diag, given, stored,
                   firstRet>>

SubNext == TrimAndSub

SpecSub == SubInit /\ [][SubNext]_vars

----------------------------------------------------------------------------
(* Claims about the substitutor, checked under SpecSub.                    *)

\* str holds a ${...} token
HasToken(str) ==
    \E i \in 1..Len(str), j \in 1..Len(str) :
        i + 1 < j /\ str[i] = "$" /\ str[i + 1] = "{" /\ str[j] = "}"

HasDollar(str) == \E i \in 1..Len(str) : str[i] = "$"

HasDoubleDollar(str) == \E i \in 1..(Len(str) - 1) : str[i] = "$" /\ str[i + 1] = "$"

\* the call returned, every name resolved and every ${ was closed
Substituted == pstep = "done" /\ ~pout.undefined /\ ~pout.overrun

\* what an expansion produces is appended as it is: ${a} alone gives the value
\* of a, and $$ in front of text without a '$' gives '$' and that text
AppendedAsIs ==
    /\ pin.str = <<"$", "{", "a", "}">> => pout.str = pin.pkg.vars[VarA]
    /\ ( /\ Len(pin.str) >= 2
         /\ pin.str[1] = "$" /\ pin.str[2] = "$"
         /\ ~HasDollar(Drop(pin.str, 2)) ) => pout.str = Tail(pin.str)

\* C16 (as stated): when all referenced names resolve the output of
\* trim_and_sub contains no ${...} token, and the text an expansion of $$ or
\* ${name} produces is appended as is and never scanned again.
C16_SubstitutionFixpoint ==
    Substituted => (~HasToken(pout.str) /\ AppendedAsIs)

\* C16 (amended): substitution is one pass, the text an expansion of $$ or
\* ${name} produces being appended as is and never scanned again; the output
\* is free of ${...} tokens when, besides all names resolving, the input has
\* no $$ and no variable in scope has a '$' in its value.
C16_OnePass ==
    Substituted =>
        /\ AppendedAsIs
        /\ ( /\ ~HasDoubleDollar(pin.str)
             /\ \A v \in DOMAIN pin.pkg.vars : ~HasDollar(pin.pkg.vars[v]) )
           => ~HasToken(pout.str)

\* ${a} where a is "${b}": the value comes out as it is, a token included
C16_Witness ==
    /\ Substituted
    /\ pin.str = <<"$", "{", "a", "}">>
    /\ pin.pkg.vars[VarA] = <<"$", "{", "b", "}">>
    /\ pout.str = <<"$", "{", "b", "}">>

----------------------------------------------------------------------------
(* The shell escaping of one token, parse.c:536-563, on its own: the token *)
(* is drawn from the strings over EscChars.                                *)

MaxTokenLen == 3

EscChars == {"a", "Z", "0", "-", "$", "%", "(", "~", " ", ";", BQ}

EscInit ==
    /\ VerIdle /\ MergeIdle /\ RegIdle
    /\ stream = <<>> /\ rpos = 0 /\ rlines = <<>>
    /\ pin \in StringsUpTo(EscChars, MaxTokenLen)
    /\ pout = <<>>
    /\ pstep = "start"

\* char *arg = strdup_escape_shell (tmp);
EscapeToken ==
    /\ pstep = "start"
    /\ pout' = strdup_escape_shell(pin)
    /\ pstep' = "done"
    /\ UNCHANGED <<verVars, heap, mergeVars, regVars, stream, rpos, rlines, pin>>

EscNext == EscapeToken

SpecEsc == EscInit /\ [][EscNext]_vars

\* the safe set of the specification
SafeSet ==
    {Printable[i] : i \in {j \in 1..Len(Printable) :
        \/ Byte(Printable[j]) >= Byte("A") /\ Byte(Printable[j]) <= Byte("Z")
        \/ Byte(Printable[j]) >= Byte("a") /\ Byte(Printable[j]) <= Byte("z")
        \/ Byte(Printable[j]) >= Byte("0") /\ Byte(Printable[j]) <= Byte("9")}}
    \cup {"_", ".", "/", ":", "@", "^", "+", ",", "%", "=", "-"}

RECURSIVE EscapedOutside(_, _)
EscapedOutside(s, safe) ==
    IF s = <<>> THEN <<>>
    ELSE (IF Head(s) \in safe THEN <<Head(s)>> ELSE <<BSL, Head(s)>>)
         \o EscapedOutside(Tail(s), safe)

\* C20: strdup_escape_shell returns the token with a backslash inserted
\* before exactly the bytes outside [A-Za-z0-9_./:@^+,%=-] and before no byte
\* inside it, so that every shell metacharacter is preceded by a backslash.
C20_ShellEscape ==
    pstep = "done" => pout = EscapedOutside(pin, SafeSet)

----------------------------------------------------------------------------
(* parse_module_list, parse.c:295-526, on its own.  The string is written  *)
(* from up to MaxEntries entries, each a name with or without an operator  *)
(* and a version, joined by a separator.                                   *)

MaxEntries == 3

Entry(name, op, version) == [name |-> name, op |-> op, version |-> version]

Entries ==
    {Entry(<<"a">>, <<>>, <<>>), Entry(<<"b">>, <<>>, <<>>),
     Entry(<<"a">>, <<"=">>, <<"1">>), Entry(<<"b">>, <<">", "=">>, <<"1">>),
     Entry(<<"a">>, <<"=", "=">>, <<"1">>), Entry(<<"b">>, <<"!">>, <<"1">>)}

\* an entry as it is written in a module list
Written(e) ==
    IF e.op = <<>> THEN e.name ELSE e.name \o <<" ">> \o e.op \o <<" ">> \o e.version

RECURSIVE WrittenList(_, _)
WrittenList(entries, sep) ==
    IF entries = <<>> THEN <<>>
    ELSE IF Len(entries) = 1 THEN Written(Head(entries))
    ELSE Written(Head(entries)) \o sep \o WrittenList(Tail(entries), sep)

ModsInit ==
    /\ VerIdle /\ MergeIdle
    /\ search_dirs = <<>> /\ given = <<>> /\ initted = FALSE
    /\ locations = EmptyMap /\ packages = EmptyMap /\ globals = EmptyMap
    /\ freed = {}
    /\ disable_uninstalled = FALSE /\ define_prefix = FALSE
    /\ parse_strict \in BOOLEAN
    /\ fatal = "" /\ gcall = NoGet /\ diag = {}
    /\ stored = {} /\ firstRet = EmptyMap
    /\ stream = <<>> /\ rpos = 0 /\ rlines = <<>>
    /\ \E entries \in StringsUpTo(Entries, MaxEntries), sep \in {<<",">>, <<" ">>, <<",", " ">>} :
          pin = [entries |-> entries, str |-> WrittenList(entries, sep)]
    /\ pout = <<>>
    /\ pstep = "start"

\* GList *list = parse_module_list (pkg, str, path);
ParseModuleList ==
    /\ pstep = "start"
    /\ pout' = parse_module_list(pin.str, 1, parse_strict)
    /\ pstep' = "done"
    /\ UNCHANGED <<verVars, heap, mergeVars, regVars, stream, rpos, rlines, pin>>

ModsNext == ParseModuleList

SpecMods == ModsInit /\ [][ModsNext]_vars

Operators == {<<"=">>, <<"!", "=">>, <<"<">>, <<"<", "=">>, <<">">>, <<">", "=">>}

UnknownOperator(e) == e.op # <<>> /\ e.op \notin Operators

\* what an entry with a recognized operator, or none, is parsed to
Parsed(e) ==
    [name |-> e.name,
     comparison |-> IF e.op = <<>> THEN "ALWAYS_MATCH" ELSE Comparison(e.op),
     version |-> IF e.op = <<>> THEN None ELSE Some(e.version),
     owner |-> 1]

RECURSIVE ParsedKnown(_)
ParsedKnown(entries) ==
    IF entries = <<>> THEN <<>>
    ELSE (IF UnknownOperator(Head(entries)) THEN <<>> ELSE <<Parsed(Head(entries))>>)
         \o ParsedKnown(Tail(entries))

\* C19: an entry whose operator is not one of =, !=, <, <=, >, >= ends the
\* parse in the fatal state under parse_strict; in lax mode the returned list
\* has no RequiredVersion for it, and the entries before and after it are
\* parsed normally and keep their order.
C19_UnknownOperator ==
    pstep = "done" =>
        IF parse_strict /\ \E i \in DOMAIN pin.entries : UnknownOperator(pin.entries[i])
        THEN pout.exit
        ELSE ~pout.exit /\ pout.list = ParsedKnown(pin.entries)

----------------------------------------------------------------------------
(* parse_package_file, parse.c:788-1021, on its own: a descriptor of up to *)
(* MaxLines lines drawn from FieldLines and VariableLines, in a directory  *)
(* that is or is not named pkgconfig.                                      *)

MaxLines == 2

FieldLines ==
    {Field("Name", <<"n">>), Field("Name", <<"m">>),
     Field("Description", <<"d">>), Field("Version", <<"1">>),
     Field("Requires", <<"a">>), Field("Requires", <<"b">>),
     Field("Requires.private", <<"a">>),
     Field("Libs", <<"-", "l", "a">>), Field("Libs", <<"-", "l", "b">>),
     Field("Libs.private", <<"-", "l", "a">>),
     Field("Cflags", <<"-", "I", "a">>), Field("CFlags", <<"-", "I", "b">>),
     Field("Conflicts", <<"a">>), Field("URL", <<"u">>)}

PCFILEDIR == <<"p", "c", "f", "i", "l", "e", "d", "i", "r">>

VariableLines ==
    {Variable(<<"v">>, <<"x">>), Variable(<<"v">>, <<"y">>),
     Variable(<<"e">>, <<>>), Variable(<<"e">>, <<"z">>),
     Variable(PCFILEDIR, <<"x">>),
     Variable(prefix_variable, <<"/", "a">>), Variable(prefix_variable, <<"/", "b">>),
     Variable(<<"d">>, <<"/", "a", "/", "l">>)}

DescriptorPaths ==
    {<<"/", "u", "/", "l", "/", "p", "k", "g", "c", "o", "n", "f", "i", "g", "/", "x", ".", "p", "c">>,
     <<"/", "u", "/", "l", "/", "x", ".", "p", "c">>}

FieldsInit ==
    /\ VerIdle /\ MergeIdle
    /\ search_dirs = <<>> /\ given = <<>> /\ initted = FALSE
    /\ locations = EmptyMap /\ packages = EmptyMap /\ globals = EmptyMap
    /\ freed = {}
    /\ disable_uninstalled = FALSE
    /\ parse_strict \in BOOLEAN
    /\ define_prefix \in BOOLEAN
    /\ fatal = "" /\ gcall = NoGet /\ diag = {}
    /\ stored = {} /\ firstRet = EmptyMap
    /\ stream = <<>> /\ rpos = 0 /\ rlines = <<>>
    /\ \E lines \in StringsUpTo(FieldLines \cup VariableLines, MaxLines),
          path \in DescriptorPaths :
          /\ (~define_prefix => path = <<"/", "u", "/", "l", "/", "x", ".", "p", "c">>)
          /\ pin = [lines |-> lines, path |-> path]
    /\ pout = <<>>
    /\ pstep = "start"

\* pkg = parse_package_file (key, path);
ParseDescriptor ==
    /\ pstep = "start"
    /\ pout' = ParseFile(pin.path, pin.lines, 1)
    /\ pstep' = "done"
    /\ UNCHANGED <<verVars, heap, mergeVars, regVars, stream, rpos, rlines, pin>>

FieldsNext == ParseDescriptor

SpecFields == FieldsInit /\ [][FieldsNext]_vars

\* the Package field a keyword line sets
KeywordField(tag) ==
    CASE tag = "Name" -> "name"
      [] tag = "Description" -> "description"
      [] tag = "Version" -> "version"
      [] tag = "Requires" -> "requires_entries"
      [] tag = "Requires.private" -> "requires_private_entries"
      [] tag = "Libs" -> "libs"
      [] tag = "Libs.private" -> "libs_private"
      [] tag \in {"Cflags", "CFlags"} -> "cflags"
      [] tag = "Conflicts" -> "conflicts"
      [] tag = "URL" -> "url"

\* line j says again what an earlier line said: the same field, or the same
\* variable
Repeats(lines, j) ==
    \E i \in 1..(j - 1) :
        /\ lines[i].var = lines[j].var
        /\ IF lines[j].var THEN lines[i].tag = lines[j].tag
           ELSE KeywordField(lines[i].tag) = KeywordField(lines[j].tag)

\* the descriptor without the lines that repeat an earlier one
RECURSIVE FirstOnly(_, _)
FirstOnly(lines, j) ==
    IF j > Len(lines) THEN <<>>
    ELSE (IF Repeats(lines, j) \/ (lines[j].var /\ lines[j].tag = PCFILEDIR)
          THEN <<>> ELSE <<lines[j]>>) \o FirstOnly(lines, j + 1)

\* C17: a second occurrence of a recognized field in one descriptor ends the
\* parse in the fatal state under parse_strict; in lax mode it is ignored and
\* the Package's value for the field is what the first occurrence alone
\* produced.
C17_DuplicateFields ==
    pstep = "done" =>
        \A j \in DOMAIN pin.lines :
            (~pin.lines[j].var /\ Repeats(pin.lines, j)) =>
                IF parse_strict THEN pout.exit
                ELSE /\ ~pout.exit
                     /\ pout.pkg[KeywordField(pin.lines[j].tag)]
                          = ParseFile(pin.path, FirstOnly(pin.lines, 1), 1)
                                .pkg[KeywordField(pin.lines[j].tag)]

\* C18: a second assignment to a variable that is already defined (pcfiledir,
\* a variable defined empty and the relocated prefix included) ends the parse
\* in the fatal state under parse_strict; in lax mode it is dropped, the
\* variable keeps its first value and no other entry of vars changes.
C18_DuplicateVariables ==
    pstep = "done" =>
        \A j \in DOMAIN pin.lines :
            (pin.lines[j].var /\ (Repeats(pin.lines, j) \/ pin.lines[j].tag = PCFILEDIR)) =>
                IF parse_strict THEN pout.exit
                ELSE /\ ~pout.exit
                     /\ pout.pkg.vars = ParseFile(pin.path, FirstOnly(pin.lines, 1), 1).pkg.vars

----------------------------------------------------------------------------
(* The flag loops of do_parse_libs and parse_cflags, parse.c:565-648 and   *)
(* 717-772, on their own: the argument vector is what g_shell_parse_argv   *)
(* returned, up to MaxArgs tokens, and the list is reversed as             *)
(* parse_package_file does when the file has been read.                    *)

MaxArgs == 3

Tokens ==
    {FRAMEWORK, WL_FRAMEWORK, IDIRAFTER, ISYSTEM,
     <<"C", "o", "c", "o", "a">>, <<"-", "l", "z">>, <<"-", "I", "a">>, <<>>, <<" ">>}

FlagsInit ==
    /\ RegIdle /\ VerIdle /\ MergeIdle
    /\ stream = <<>> /\ rpos = 0 /\ rlines = <<>>
    /\ \E argv \in StringsUpTo(Tokens, MaxArgs), field \in {"libs", "cflags"} :
          pin = [argv |-> argv, field |-> field]
    /\ pout = <<>>
    /\ pstep = "start"

\* do_parse_libs (&pkg->libs, argc, argv); ... pkg->libs = g_list_reverse (pkg->libs);
ParseLibsArgs ==
    /\ pstep = "start"
    /\ pin.field = "libs"
    /\ pout' = Reverse(do_parse_libs(<<>>, pin.argv, 1))
    /\ pstep' = "done"
    /\ UNCHANGED <<verVars, heap, mergeVars, regVars, stream, rpos, rlines, pin>>

\* the while loop of parse_cflags; ... pkg->cflags = g_list_reverse (pkg->cflags);
ParseCflagsArgs ==
    /\ pstep = "start"
    /\ pin.field = "cflags"
    /\ pout' = Reverse(CflagsLoop(<<>>, pin.argv, 1))
    /\ pstep' = "done"
    /\ UNCHANGED <<verVars, heap, mergeVars, regVars, stream, rpos, rlines, pin>>

FlagsNext == ParseLibsArgs \/ ParseCflagsArgs

SpecFlags == FlagsInit /\ [][FlagsNext]_vars

\* the two-token options of a field and the class of the joined flag
TwoTokenOptions(field) ==
    IF field = "libs" THEN {FRAMEWORK, WL_FRAMEWORK} ELSE {IDIRAFTER, ISYSTEM}

JoinedClass(field) == IF field = "libs" THEN "LIBS_OTHER" ELSE "CFLAGS_I"

\* the flags one token gives when it is classified on its own
Alone(field, token) ==
    IF field = "libs" THEN do_parse_libs(<<>>, <<token>>, 1)
    ELSE CflagsLoop(<<>>, <<token>>, 1)

\* the flags of an argument vector in token order, a two-token option
\* taking the token behind it
RECURSIVE InTokenOrder(_, _)
InTokenOrder(field, argv) ==
    IF argv = <<>> THEN <<>>
    ELSE IF trim_string(Head(argv)) \in TwoTokenOptions(field) /\ Len(argv) > 1
    THEN <<Flag(JoinedClass(field),
                trim_string(Head(argv)) \o <<" ">>
                    \o strdup_escape_shell(trim_string(argv[2])))>>
         \o InTokenOrder(field, Tail(Tail(argv)))
    ELSE Alone(field, Head(argv)) \o InTokenOrder(field, Tail(argv))

\* C21: a token -framework or -Wl,-framework (Libs) or -idirafter or -isystem
\* (Cflags) with a token behind it is stored as one flag, the option, one
\* space and the escaped following token, of class LIBS_OTHER resp. CFLAGS_I;
\* the following token is not classified on its own; the flags are stored in
\* token order and an empty token gives no flag.
C21_TwoTokenOptions ==
    pstep = "done" =>
        /\ pout = InTokenOrder(pin.field, pin.argv)
        /\ \A i \in DOMAIN pout : pout[i].arg # <<>>

\* `-framework Cocoa -lz` has given exactly `-framework Cocoa` and `-lz`
C21_Witness ==
    /\ pstep = "done"
    /\ pin = [argv |-> <<FRAMEWORK, <<"C", "o", "c", "o", "a">>, <<"-", "l", "z">>>>,
              field |-> "libs"]
    /\ pout = <<Flag("LIBS_OTHER", FRAMEWORK \o <<" ">> \o <<"C", "o", "c", "o", "a">>),
                Flag("LIBS_l", <<"-", "l", "z">>)>>

----------------------------------------------------------------------------
(* split_module_list, parse.c:295-407, byte by byte: pout holds its locals *)
(* while the loop runs and the list it returns afterwards.                 *)

MaxListLen == 5

ListChars == {"a", " ", ",", "="}

SplitInit ==
    /\ RegIdle /\ VerIdle /\ MergeIdle
    /\ stream = <<>> /\ rpos = 0 /\ rlines = <<>>
    /\ pin \in StringsUpTo(ListChars, MaxListLen)
    /\ pout = SplitStart
    /\ pstep = "scan"

\* one iteration of while (*p)
SplitByte ==
    /\ pstep = "scan"
    /\ pout.p <= Len(pin)
    /\ pout.last_state # "g_assert_not_reached"
    /\ pout' = SplitIter(pin, pout)
    /\ UNCHANGED <<verVars, heap, mergeVars, regVars, stream, rpos, rlines, pin, pstep>>

\* the loop has ended: the last module, g_list_reverse, return
SplitReturn ==
    /\ pstep = "scan"
    /\ pout.p > Len(pin)
    /\ pout' = [pout EXCEPT !.retval = SplitEnd(pin, pout)]
    /\ pstep' = "done"
    /\ UNCHANGED <<verVars, heap, mergeVars, regVars, stream, rpos, rlines, pin>>

SplitNext == SplitByte \/ SplitReturn

SpecSplit == SplitInit /\ [][SplitNext]_vars

\* the arcs of the state machine
Arcs ==
    {<<"OUTSIDE_MODULE", "IN_MODULE_NAME">>,
     <<"IN_MODULE_NAME", "OUTSIDE_MODULE">>, <<"IN_MODULE_NAME", "BEFORE_OPERATOR">>,
     <<"BEFORE_OPERATOR", "IN_OPERATOR">>, <<"IN_OPERATOR", "AFTER_OPERATOR">>,
     <<"AFTER_OPERATOR", "IN_MODULE_VERSION">>, <<"IN_MODULE_VERSION", "OUTSIDE_MODULE">>}

AlongArcs ==
    pout'.last_state = pout.last_state \/ <<pout.last_state, pout'.last_state>> \in Arcs

\* in BEFORE_OPERATOR the byte to be read is white space or an operator byte
OperatorAhead ==
    (pstep = "scan" /\ pout.last_state = "BEFORE_OPERATOR") =>
        /\ pout.p <= Len(pin)
        /\ isspace(pin[pout.p]) \/ OPERATOR_CHAR(pin[pout.p])

\* a comma read in a name commits the module, which is the name alone
CommaCommits ==
    (pstep = "scan" /\ pout.last_state = "IN_MODULE_NAME" /\ pout.p <= Len(pin)
        /\ pin[pout.p] = ",") =>
        /\ pout'.last_state = "OUTSIDE_MODULE"
        /\ pout'.retval = <<SubSeq(pin, pout.start, pout.p - 1)>> \o pout.retval
        /\ \A i \in pout.start..(pout.p - 1) : ~MODULE_SEPARATOR(pin[i])

\* every module string begins with a byte that is no separator
ModulesBegin ==
    \A i \in DOMAIN pout.retval :
        pout.retval[i] # <<>> /\ ~MODULE_SEPARATOR(pout.retval[i][1])

C23_ScanBound ==
    pstep = "done" =>
        /\ ~pout.overrun
        /\ ~pout.crash
        /\ pout.str = trim_and_sub(pin.pkg, pin.str).str

----------------------------------------------------------------------------
(* The variable queries, pkg.c:825-897, and the lookup trim_and_sub makes, *)
(* parse.c:197-210.  package_get_var hands out the string stored in        *)
(* globals itself, and both callers g_free what they get: from then on the *)
(* hash table holds a pointer to freed memory, and what a later lookup     *)
(* reads there is not defined.                                             *)

MaxPkgs == 2

VarV == <<"v">>
Garbage == <<"?">>

PackageVars == {EmptyMap, VarV :> <<"x">>, VarV :> <<>>}
QueryVars == {VarV, PCFILEDIR}

VarPackage(vs, dir) == [NewPackage EXCEPT !.vars = vs, !.pcfiledir = dir]

VarsInit ==
    /\ RegIdle /\ VerIdle
    /\ stream = <<>> /\ rpos = 0 /\ rlines = <<>>
    /\ mcall = NoCall /\ mdups = <<>> /\ mlist = <<>> /\ mout = <<>>
    /\ \E v1 \in PackageVars, v2 \in PackageVars, d1 \in {None, Some(<<"d">>)} :
          heap = <<VarPackage(v1, d1), VarPackage(v2, None)>>
    /\ pin = <<>> /\ pout = <<>> /\ pstep = "idle"

\* what a caller reads in the string package_get_var returned: the value,
\* unless the string is that of a global which has been freed
Reads(r, var) ==
    IF ~r.copy /\ var \in freed THEN {r.val, Garbage} ELSE {r.val}

\* the while loop of packages_get_var, pkg.c:874-889, from the i-th package
\* on; fr is the set of freed globals, read[i] what is read in the string
\* the i-th lookup returned, twice whether a string was freed a second time
RECURSIVE GetVarLoop(_, _, _, _, _, _, _, _)
GetVarLoop(pkgs, varname, i, str, vals, fr, twice, read) ==
    IF i > Len(pkgs) THEN [str |-> str, vals |-> vals, freed |-> fr, twice |-> twice]
    ELSE LET var == package_get_var(heap[pkgs[i]], varname)
         IN  IF var.some
             THEN GetVarLoop(pkgs, varname, i + 1,
                             str \o read[i] \o <<" ">>,
                             Append(vals, read[i]),
                             IF var.copy THEN fr ELSE fr \cup {varname},
                             twice \/ (~var.copy /\ varname \in fr),
                             read)
             ELSE GetVarLoop(pkgs, varname, i + 1, str, vals, fr, twice, read)

\* define_global_variable, pkg.c:825-842
define_global_variable ==
    /\ pstep \in {"idle", "done"} /\ fatal = ""
    /\ \E varname \in {VarV}, varval \in {<<"g">>} :
          IF varname \in DOMAIN globals
          THEN fatal' = "defined twice globally" /\ UNCHANGED globals
          ELSE globals' = MapPut(globals, varname, varval) /\ UNCHANGED fatal
    /\ UNCHANGED <<verVars, heap, mergeVars, parseVars, search_dirs, initted, locations,
                   packages, freed, disable_uninstalled, define_prefix, parse_strict,
                   gcall, diag, given, stored, firstRet>>

\* packages_get_var, pkg.c:863-897.  With an empty buffer the chop writes to
\* str->str[-1], outside the buffer; freeing a string twice or writing
\* outside a buffer may end the process
packages_get_var ==
    /\ pstep \in {"idle", "done"} /\ fatal = ""
    /\ \E pkgs \in StringsUpTo(1..Len(heap), MaxPkgs), varname \in QueryVars :
       \E read \in [1..Len(pkgs) ->
                      UNION {Reads(package_get_var(heap[k], varname), varname) : k \in 1..Len(heap)}
                        \cup {Garbage}] :
          /\ \A i \in 1..Len(pkgs) :
                LET var == package_get_var(heap[pkgs[i]], varname)
                IN  read[i] \in (IF var.some /\ ~var.copy /\ (varname \in freed \/ i > 1)
                                 THEN {var.val, Garbage}
                                 ELSE {var.val})
          /\ \E r \in {GetVarLoop(pkgs, varname, 1, <<>>, <<>>, freed, FALSE, read)},
                crash \in BOOLEAN :
                /\ crash => (r.twice \/ r.str = <<>>)
                /\ pin' = [fn |-> "packages_get_var", pkgs |-> pkgs, varname |-> varname]
                /\ pout' = [str  |-> IF r.str = <<>> THEN <<>> ELSE Take(r.str, Len(r.str) - 1),
                            vals |-> r.vals,
                            outside |-> r.str = <<>>]
                /\ freed' = r.freed
                /\ fatal' = IF crash THEN "crash" ELSE ""
    /\ pstep' = "done"
    /\ UNCHANGED <<verVars, heap, mergeVars, stream, rpos, rlines, search_dirs, initted,
                   locations, packages, globals, disable_uninstalled, define_prefix,
                   parse_strict, gcall, diag, given, stored, firstRet>>

\* varval = package_get_var (pkg, varname); g_string_append (subst, varval);
\* g_free (varval); in trim_and_sub, parse.c:197-210, for the value "${varname}"
substitute_variable ==
    /\ pstep \in {"idle", "done"} /\ fatal = ""
    /\ \E k \in 1..Len(heap), varname \in QueryVars :
       \E var \in {package_get_var(heap[k], varname)} :
          /\ var.some
          /\ \E val \in Reads(var, varname), crash \in BOOLEAN :
                /\ crash => (~var.copy /\ varname \in freed)
                /\ pin' = [fn |-> "trim_and_sub", pkgs |-> <<k>>, varname |-> varname]
                /\ pout' = [str |-> val, vals |-> <<val>>, outside |-> FALSE]
                /\ freed' = IF var.copy THEN freed ELSE freed \cup {varname}
                /\ fatal' = IF crash THEN "crash" ELSE ""
    /\ pstep' = "done"
    /\ UNCHANGED <<verVars, heap, mergeVars, stream, rpos, rlines, search_dirs, initted,
                   locations, packages, globals, disable_uninstalled, define_prefix,
                   parse_strict, gcall, diag, given, stored, firstRet>>

VarsNext == define_global_variable \/ packages_get_var \/ substitute_variable

SpecVars == VarsInit /\ [][VarsNext]_vars

\* the value a lookup of var in pkg is to give: the global override, then
\* the package's own variable, then the synthetic pcfiledir
StoredValue(pkg, var) ==
    IF var \in DOMAIN globals THEN Some(globals[var])
    ELSE IF var \in DOMAIN pkg.vars THEN Some(pkg.vars[var])
    ELSE IF var = PCFILEDIR THEN pkg.pcfiledir
    ELSE None

\* the values of the packages of a list that define var, in list order
RECURSIVE DefinedValues(_, _)
DefinedValues(pkgs, var) ==
    IF pkgs = <<>> THEN <<>>
    ELSE (IF StoredValue(heap[Head(pkgs)], var).some
          THEN <<StoredValue(heap[Head(pkgs)], var).val>> ELSE <<>>)
         \o DefinedValues(Tail(pkgs), var)

\* strings joined by single spaces, nothing behind the last
RECURSIVE SpaceJoined(_)
SpaceJoined(strs) ==
    IF strs = <<>> THEN <<>>
    ELSE IF Len(strs) = 1 THEN Head(strs)
    ELSE Head(strs) \o <<" ">> \o SpaceJoined(Tail(strs))

\* C24: for every list of packages, the empty one included, packages_get_var
\* returns the values of the packages that define the variable, in input
\* order, joined by single spaces with no trailing space, the empty string
\* when none defines it, and never writes outside its result buffer.
C24_MultiPackageQuery ==
    (pstep = "done" /\ pin.fn = "packages_get_var") =>
        /\ pout.str = SpaceJoined(DefinedValues(pin.pkgs, pin.varname))
        /\ ~pout.outside

\* C25: package_get_var resolves a name by global override, package
\* variable, pcfiledir, and returns a fresh copy: after any sequence of
\* lookups whose results the callers free, every stored value is still live
\* and a lookup yields the value stored.
C25_LookupOwnership ==
    /\ freed = {}
    /\ pstep = "done" =>
          pout.vals = DefinedValues(pin.pkgs, pin.varname)

====
